---- MODULE Spec2Model ----
(***************************************************************************)
(* Model of GeminiAnalyzer (src/src/analyzer.py): construction, the        *)
(* retry / model-switch / family-fallback cascade of _call_api_with_retry  *)
(* and _call_openai_api, analyze() around them, and the response parser    *)
(* (_parse_response, _fix_json_string, _parse_text_response),             *)
(* batch_analyze, and of DatabaseManager (src/src/storage.py):             *)
(* save_news_intel on the table news_intel and save_analysis_history.      *)
(*                                                                         *)
(* Texts (error messages) are sequences of one-character strings so that   *)
(* the substring tests of the code can be computed.  A fixed message of    *)
(* the code that contains none of the inspected substrings is written as   *)
(* a one-element sequence holding a name for the whole message.            *)
(***************************************************************************)
EXTENDS Integers, Sequences, FiniteSets, TLC

----------------------------------------------------------------------------
(* Bounds *)

\* largest configured gemini_max_retries that is explored
MaxRetriesCfg == 3
\* number of analyze() invocations one caller thread makes in a row
MaxInvocations == 2

\* largest number of words of a free text given to the parser
MaxWords == 3

\* longest list of contexts given to batch_analyze
MaxBatch == 2

\* most items of one search response, and most save_news_intel calls
MaxItems == 2
MaxSaves == 2

\* longest stock_list given to set_stock_list, and most lines of the .env
\* file before it
MaxChars == 3
MaxLines == 2

\* most request threads that call submit_analysis, and the largest
\* max_workers an AnalysisService is built with
MaxRequests == 2
MaxWorkersCfg == 1
\* def __init__(self, max_workers: int = 3)
DefaultMaxWorkers == 3

\* the two caller threads
Calls == {1, 2}

----------------------------------------------------------------------------
(* Program constants *)

\* delay = min(delay, 60)
MaxDelay == 60
\* sentiment_score of both degraded results
NeutralScore == 50
\* explored values of gemini_retry_delay (default 5.0)
DefaultRetryDelay == 5
\* request_options={"timeout": 120}
GeminiTimeout == 120
BaseDelays == {DefaultRetryDelay, 40}

\* messages of the code
MsgNoKey == <<"Gemini API Key not configured">>
MsgGeminiEmpty == <<"Gemini empty response">>
MsgOpenAIEmpty == <<"OpenAI API empty response">>
MsgOpenAIExhausted == <<"OpenAI API call failed, max tries reached">>
MsgAllFailed == <<"all AI API calls failed, max tries reached">>
MsgNoneType == <<"'", "N", "o", "n", "e", "T", "y", "p", "e", "'", " ",
                 "g", "e", "n", "e", "r", "a", "t", "e", "_",
                 "c", "o", "n", "t", "e", "n", "t">>
MsgListHasNoGet == <<"'list' object has no attribute 'get'">>
MsgBadFormat == <<"unsupported format string passed to NoneType.__format__">>

\* message texts a provider may fail with
ErrTexts == { <<"4", "2", "9">>, <<"t", "i", "m", "e", "d">>, <<>> }

\* contexts: whether _format_prompt can render the context
Contexts == {"plain", "chip_without_ratio"}

\* stock codes
DefaultCode == "600519"
Codes == {DefaultCode, "000001"}

----------------------------------------------------------------------------
(* Exceptions *)

NoError == [cls |-> "None", text |-> <<>>]
Exc(c, t) == [cls |-> c, text |-> t]

\* "a or b" on exception objects: an exception instance is always truthy
OrElse(a, b) == IF a.cls # "None" THEN a ELSE b

\* str.lower() on the letters that occur
LowerChar(ch) ==
    CASE ch = "R" -> "r"
      [] ch = "Q" -> "q"
      [] ch = "N" -> "n"
      [] ch = "T" -> "t"
      [] ch = "B" -> "b"
      [] ch = "U" -> "u"
      [] ch = "Y" -> "y"
      [] ch = "True" -> "true"
      [] ch = "False" -> "false"
      [] OTHER -> ch
Lower(s) == [i \in 1..Len(s) |-> LowerChar(s[i])]

\* sub in s
Contains(sub, s) ==
    \E i \in 0..(Len(s) - Len(sub)) :
        \A j \in 1..Len(sub) : s[i + j] = sub[j]

\* is_rate_limit of both loops
is_rate_limit(error_str) ==
    \/ Contains(<<"4", "2", "9">>, error_str)
    \/ Contains(<<"q", "u", "o", "t", "a">>, Lower(error_str))
    \/ Contains(<<"r", "a", "t", "e">>, Lower(error_str))

----------------------------------------------------------------------------
(* Texts and JSON values *)

(***************************************************************************)
(* A text is a sequence of tokens.  A token is one character where the     *)
(* code looks at characters ('{', ',', '"', the letters of the ASCII       *)
(* keywords) and otherwise a unit the code never looks inside: a Chinese   *)
(* character (written in pinyin), a number literal, a field name, the      *)
(* words True, False, true, false, null, a code fence, a comment marker.   *)
(***************************************************************************)

Q == "\""

Min(a, b) == IF a <= b THEN a ELSE b

\* Chinese words of the code
Hold == <<"chi", "you">>
Oscillate == <<"zhen", "dang">>
ConfLow == <<"di">>
ConfMid == <<"zhong">>
BuyCn == <<"mai3", "ru4">>
AddCn == <<"jia", "cang">>
StrongBuyCn == <<"qiang", "lie", "mai3", "ru4">>
SellCn == <<"mai4", "chu">>
ReduceCn == <<"jian", "cang">>
StrongSellCn == <<"qiang", "lie", "mai4", "chu">>
BullCn == <<"kan", "duo">>
BearCn == <<"kan", "kong">>
WatchCn == <<"guan", "wang">>

\* English words of the code
Buy == <<"b", "u", "y">>
Sell == <<"s", "e", "l", "l">>
HoldEn == <<"h", "o", "l", "d">>
Bullish == <<"b", "u", "l", "l", "i", "s", "h">>
Bearish == <<"b", "e", "a", "r", "i", "s", "h">>

\* a decoded JSON value: its type and its canonical text (for a string,
\* the characters between the quotes)
Str(v) == [t |-> "str", v |-> v]
Num(tok) == [t |-> "num", v |-> <<tok>>]
Bool(b) == [t |-> "bool", v |-> IF b THEN <<"true">> ELSE <<"false">>]
Null == [t |-> "null", v |-> <<"null">>]

\* int() of the number literals that occur
IntLits == {"0", "50", "72", "150", "-5"}
NumLits == IntLits \cup {"72.5"}
IntOfLit(tok) ==
    CASE tok = "0" -> 0
      [] tok = "50" -> 50
      [] tok = "72" -> 72
      [] tok = "72.5" -> 72
      [] tok = "150" -> 150
      [] tok = "-5" -> 0 - 5
      [] OTHER -> 0

\* json.dumps of a decoded value
Dumps(val) == IF val.t = "str" THEN <<Q>> \o val.v \o <<Q>> ELSE val.v

IsWs(tok) == tok \in {" ", "\n"}

RECURSIVE SkipWs(_, _)
SkipWs(s, i) == IF i <= Len(s) /\ IsWs(s[i]) THEN SkipWs(s, i + 1) ELSE i

\* index of the quote that closes the string whose content starts at i;
\* 0 when there is none or a raw line break comes first
RECURSIVE StrEnd(_, _)
StrEnd(s, i) ==
    IF i > Len(s) THEN 0
    ELSE IF s[i] = Q THEN i
    ELSE IF s[i] = "\n" THEN 0
    ELSE StrEnd(s, i + 1)

DecodeFail == [ok |-> FALSE, val |-> Null, mem |-> <<>>, next |-> 0]
Decoded(val, mem, next) == [ok |-> TRUE, val |-> val, mem |-> mem, next |-> next]

\* the JSON decoder: the value that starts at i0, its members when it is
\* an object, and the index after it
RECURSIVE DecodeValue(_, _), DecodeMembers(_, _, _, _), DecodeItems(_, _, _)
DecodeValue(s, i0) ==
    LET i == SkipWs(s, i0) IN
    IF i > Len(s) THEN DecodeFail
    ELSE IF s[i] = "{" THEN
        LET j == SkipWs(s, i + 1) IN
        IF j <= Len(s) /\ s[j] = "}"
        THEN Decoded([t |-> "obj", v |-> <<"{", "}">>], <<>>, j + 1)
        ELSE DecodeMembers(s, j, <<"{">>, <<>>)
    ELSE IF s[i] = "[" THEN
        LET j == SkipWs(s, i + 1) IN
        IF j <= Len(s) /\ s[j] = "]"
        THEN Decoded([t |-> "arr", v |-> <<"[", "]">>], <<>>, j + 1)
        ELSE DecodeItems(s, j, <<"[">>)
    ELSE IF s[i] = Q THEN
        LET e == StrEnd(s, i + 1) IN
        IF e = 0 THEN DecodeFail
        ELSE Decoded(Str(SubSeq(s, i + 1, e - 1)), <<>>, e + 1)
    ELSE IF s[i] \in NumLits THEN Decoded(Num(s[i]), <<>>, i + 1)
    ELSE IF s[i] = "true" THEN Decoded(Bool(TRUE), <<>>, i + 1)
    ELSE IF s[i] = "false" THEN Decoded(Bool(FALSE), <<>>, i + 1)
    ELSE IF s[i] = "null" THEN Decoded(Null, <<>>, i + 1)
    ELSE DecodeFail

\* the members of an object from the key at i on; txt is the canonical
\* text so far
DecodeMembers(s, i, txt, mem) ==
    IF i > Len(s) \/ s[i] # Q THEN DecodeFail
    ELSE
    LET e == StrEnd(s, i + 1) IN
    IF e = 0 THEN DecodeFail
    ELSE
    LET c == SkipWs(s, e + 1) IN
    IF c > Len(s) \/ s[c] # ":" THEN DecodeFail
    ELSE
    LET r == DecodeValue(s, c + 1) IN
    IF ~r.ok THEN DecodeFail
    ELSE
    LET key == SubSeq(s, i + 1, e - 1)
        txt2 == txt \o <<Q>> \o key \o <<Q, ":">> \o Dumps(r.val)
        mem2 == Append(mem, [k |-> key, val |-> r.val])
        n == SkipWs(s, r.next)
    IN IF n > Len(s) THEN DecodeFail
       ELSE IF s[n] = "}"
       THEN Decoded([t |-> "obj", v |-> txt2 \o <<"}">>], mem2, n + 1)
       ELSE IF s[n] = ","
       THEN DecodeMembers(s, SkipWs(s, n + 1), txt2 \o <<",">>, mem2)
       ELSE DecodeFail

DecodeItems(s, i, txt) ==
    LET r == DecodeValue(s, i) IN
    IF ~r.ok THEN DecodeFail
    ELSE
    LET txt2 == txt \o Dumps(r.val)
        n == SkipWs(s, r.next)
    IN IF n > Len(s) THEN DecodeFail
       ELSE IF s[n] = "]"
       THEN Decoded([t |-> "arr", v |-> txt2 \o <<"]">>], <<>>, n + 1)
       ELSE IF s[n] = ","
       THEN DecodeItems(s, n + 1, txt2 \o <<",">>)
       ELSE DecodeFail

\* json.loads: one value with nothing but white space after it, else
\* JSONDecodeError
Loads(s) ==
    LET r == DecodeValue(s, 1) IN
    IF r.ok /\ SkipWs(s, r.next) > Len(s) THEN r ELSE DecodeFail

\* data.get(key, default) on the members of a decoded object: the last
\* member with that key wins
HasKey(mem, key) == \E i \in DOMAIN mem : mem[i].k = <<key>>
Get(mem, key, default) ==
    IF HasKey(mem, key)
    THEN LET i == CHOOSE i \in DOMAIN mem :
                    /\ mem[i].k = <<key>>
                    /\ \A j \in DOMAIN mem : mem[j].k = <<key>> => j <= i
         IN mem[i].val
    ELSE default

\* truth value of a decoded value
Falsy(val) ==
    \/ val.t = "null"
    \/ val = Str(<<>>)
    \/ val = Bool(FALSE)
    \/ val = Num("0")
    \/ val.v \in {<<"{", "}">>, <<"[", "]">>}

----------------------------------------------------------------------------
(* Results *)

\* text of the degraded summaries
SummaryNotEnabled == <<"AI analysis not enabled (no API Key)">>
SummaryErrorPrefix == <<"analysis error: ">>
SummaryDone == <<"analysis done">>
SummaryNone == <<"no analysis result">>
KeyPointsHeuristic == <<"JSON parse failed, for reference only">>
SummaryLimit == 500

\* an AnalysisResult: the fields the parser decides, each as the decoded
\* value the code stores in it
NoResult ==
    [ kind |-> "none", success |-> FALSE, sentiment_score |-> 0,
      trend_prediction |-> Null, operation_advice |-> Null,
      decision_type |-> Null, confidence_level |-> Null,
      dashboard |-> Null, analysis_summary |-> Null, key_points |-> Null,
      error_message |-> <<>>, has_error_message |-> FALSE ]

\* the result returned when is_available() is false
UnavailableResult ==
    [ kind |-> "unavailable", success |-> FALSE,
      sentiment_score |-> NeutralScore,
      trend_prediction |-> Str(Oscillate), operation_advice |-> Str(Hold),
      decision_type |-> Str(HoldEn), confidence_level |-> Str(ConfLow),
      dashboard |-> Null, analysis_summary |-> Str(SummaryNotEnabled),
      key_points |-> Str(<<>>),
      error_message |-> MsgNoKey, has_error_message |-> TRUE ]

\* variant: the error text is not carried into the result
DegradedResult_fixed_message(e) ==
    [ kind |-> "degraded", success |-> FALSE,
      sentiment_score |-> NeutralScore,
      trend_prediction |-> Str(Oscillate), operation_advice |-> Str(Hold),
      decision_type |-> Str(HoldEn), confidence_level |-> Str(ConfLow),
      dashboard |-> Null,
      analysis_summary |-> Str(SummaryErrorPrefix),
      key_points |-> Str(<<>>),
      error_message |-> MsgAllFailed, has_error_message |-> TRUE ]

\* the result built by the except branch of analyze
DegradedResult(e) ==
    [ kind |-> "degraded", success |-> FALSE,
      sentiment_score |-> NeutralScore,
      trend_prediction |-> Str(Oscillate), operation_advice |-> Str(Hold),
      decision_type |-> Str(HoldEn), confidence_level |-> Str(ConfLow),
      dashboard |-> Null,
      analysis_summary |-> Str(SummaryErrorPrefix \o e.text),
      key_points |-> Str(<<>>),
      error_message |-> e.text, has_error_message |-> TRUE ]

\* variant: except ValueError as e
Catches_ValueError_only(e) == e.cls = "ValueError"

\* except Exception as e
Catches(e) == e.cls \in {"Exception", "ValueError", "AttributeError", "TypeError"}

\* _format_prompt: '{profit_ratio:.1%}' of a chip entry without a number raises
_format_prompt(ctx) ==
    IF ctx = "chip_without_ratio" THEN Exc("TypeError", MsgBadFormat) ELSE NoError

----------------------------------------------------------------------------
(* The response parser *)

\* s without the tokens in drop
Without(s, drop) == SelectSeq(s, LAMBDA tok : tok \notin drop)

\* both replace calls on the code fences: the opening fence with its
\* json tag and the bare fence are one token each
StripFences(s) == Without(s, {"fence_json", "fence"})

\* s.find(tok) and s.rfind(tok), counted from 1; 0 when tok is not in s
Find(s, tok) ==
    IF \E i \in DOMAIN s : s[i] = tok
    THEN CHOOSE i \in DOMAIN s : s[i] = tok /\ \A j \in 1..(i - 1) : s[j] # tok
    ELSE 0
RFind(s, tok) ==
    IF \E i \in DOMAIN s : s[i] = tok
    THEN CHOOSE i \in DOMAIN s : s[i] = tok /\ \A j \in (i + 1)..Len(s) : s[j] # tok
    ELSE 0

\* the least element of a set of positions
First(S) == CHOOSE i \in S : \A j \in S : i <= j

\* the first re.sub: a line comment up to the line break becomes the
\* line break
RECURSIVE RemoveLineComments(_)
RemoveLineComments(s) ==
    LET starts == {i \in DOMAIN s :
                     s[i] = "//" /\ \E j \in (i + 1)..Len(s) : s[j] = "\n"}
    IN IF starts = {} THEN s
       ELSE LET i == First(starts)
                j == First({j \in (i + 1)..Len(s) : s[j] = "\n"})
            IN SubSeq(s, 1, i - 1) \o <<"\n">>
               \o RemoveLineComments(SubSeq(s, j + 1, Len(s)))

\* the second re.sub: a block comment is removed
RECURSIVE RemoveBlockComments(_)
RemoveBlockComments(s) ==
    LET starts == {i \in DOMAIN s :
                     s[i] = "/*" /\ \E j \in (i + 1)..Len(s) : s[j] = "*/"}
    IN IF starts = {} THEN s
       ELSE LET i == First(starts)
                j == First({j \in (i + 1)..Len(s) : s[j] = "*/"})
            IN SubSeq(s, 1, i - 1)
               \o RemoveBlockComments(SubSeq(s, j + 1, Len(s)))

\* the third and fourth re.sub: a comma, white space and the closing
\* token become the closing token
RECURSIVE RemoveTrailingCommas(_, _)
RemoveTrailingCommas(s, close) ==
    LET starts == {i \in DOMAIN s :
                     /\ s[i] = ","
                     /\ SkipWs(s, i + 1) <= Len(s)
                     /\ s[SkipWs(s, i + 1)] = close}
    IN IF starts = {} THEN s
       ELSE LET i == First(starts)
                j == SkipWs(s, i + 1)
            IN SubSeq(s, 1, i - 1) \o <<close>>
               \o RemoveTrailingCommas(SubSeq(s, j + 1, Len(s)), close)

\* json_str.replace('True', 'true').replace('False', 'false')
LowerBooleans(s) ==
    [i \in 1..Len(s) |->
        IF s[i] = "True" THEN "true"
        ELSE IF s[i] = "False" THEN "false"
        ELSE s[i]]

\* what repair_json may return for a text that does not decode: the empty
\* string, an array of the values it found, or an object it patched up
RepairOutcomes ==
    { <<>>,
      <<"[", "{", "}", ",", "{", "}", "]">>,
      <<"{", Q, "sentiment_score", Q, ":", "72", "}">> }

\* repair_json: a text that decodes comes back as json.dumps of its value
repair_json(s, rep) == IF Loads(s).ok THEN Dumps(Loads(s).val) ELSE rep

\* _fix_json_string up to the call of repair_json
FixRegexes(json_str) ==
    LET a == RemoveLineComments(json_str)
        b == RemoveBlockComments(a)
        c == RemoveTrailingCommas(b, "}")
        d == RemoveTrailingCommas(c, "]")
    IN LowerBooleans(d)

\* _fix_json_string
_fix_json_string(json_str, rep) == repair_json(FixRegexes(json_str), rep)

\* int(x) of a decoded value: the exception it raises, else NoError
MsgIntLiteral == <<"invalid literal for int() with base 10">>
MsgIntArgument == <<"int() argument must be a string, a bytes-like object or a real number">>
IntRaises(val) ==
    CASE val.t \in {"num", "bool"} -> NoError
      [] val.t = "str" ->
            IF Len(val.v) = 1 /\ val.v[1] \in IntLits THEN NoError
            ELSE Exc("ValueError", MsgIntLiteral)
      [] OTHER -> Exc("TypeError", MsgIntArgument)
IntOf(val) ==
    CASE val.t = "bool" -> IF val = Bool(TRUE) THEN 1 ELSE 0
      [] OTHER -> IntOfLit(val.v[1])

\* variant: the sell advices are not mapped
DeriveDecision_no_sell(op) ==
    IF op \in {Str(BuyCn), Str(AddCn), Str(StrongBuyCn)} THEN Str(Buy)
    ELSE Str(HoldEn)

\* decision_type from operation_advice
DeriveDecision(op) ==
    IF op \in {Str(BuyCn), Str(AddCn), Str(StrongBuyCn)} THEN Str(Buy)
    ELSE IF op \in {Str(SellCn), Str(ReduceCn), Str(StrongSellCn)} THEN Str(Sell)
    ELSE Str(HoldEn)

\* the AnalysisResult built from the decoded value: data.get(...) on a
\* value that is not an object raises AttributeError
BuildResult(r) ==
    IF r.val.t # "obj"
    THEN [raised |-> Exc("AttributeError", MsgListHasNoGet), result |-> NoResult]
    ELSE
    LET data == r.mem
        dt == Get(data, "decision_type", Str(<<>>))
        op == Get(data, "operation_advice", Str(Hold))
        score == Get(data, "sentiment_score", Num("50"))
    IN IF IntRaises(score).cls # "None"
       THEN [raised |-> IntRaises(score), result |-> NoResult]
       ELSE [ raised |-> NoError,
              result |->
                [ kind |-> "parsed", success |-> TRUE,
                  sentiment_score |-> IntOf(score),
                  trend_prediction |-> Get(data, "trend_prediction", Str(Oscillate)),
                  operation_advice |-> op,
                  decision_type |-> IF Falsy(dt) THEN DeriveDecision(op) ELSE dt,
                  confidence_level |-> Get(data, "confidence_level", Str(ConfMid)),
                  dashboard |-> Get(data, "dashboard", Null),
                  analysis_summary |-> Get(data, "analysis_summary", Str(SummaryDone)),
                  key_points |-> Get(data, "key_points", Str(<<>>)),
                  error_message |-> <<>>, has_error_message |-> FALSE ] ]

positive_keywords ==
    { BullCn, BuyCn, <<"shang", "zhang">>, <<"tu", "po">>, <<"qiang", "shi">>,
      <<"li", "hao">>, AddCn, Bullish, Buy }
negative_keywords ==
    { BearCn, SellCn, <<"xia", "die">>, <<"die", "po">>, <<"ruo", "shi">>,
      <<"li", "kong">>, ReduceCn, Bearish, Sell }

\* sum(1 for kw in keywords if kw in text_lower)
KeywordCount(keywords, text_lower) ==
    Cardinality({kw \in keywords : Contains(kw, text_lower)})

\* variant: the margin is one keyword instead of two
HeuristicBuy_margin_one(positive_count, negative_count) ==
    positive_count > negative_count

\* positive_count > negative_count + 1
HeuristicBuy(positive_count, negative_count) ==
    positive_count > negative_count + 1

\* negative_count > positive_count + 1
HeuristicSell(positive_count, negative_count) ==
    negative_count > positive_count + 1

\* _parse_text_response
_parse_text_response(response_text) ==
    LET text_lower == Lower(response_text)
        positive_count == KeywordCount(positive_keywords, text_lower)
        negative_count == KeywordCount(negative_keywords, text_lower)
        buy == HeuristicBuy(positive_count, negative_count)
        sell == ~buy /\ HeuristicSell(positive_count, negative_count)
        summary == IF response_text # <<>>
                   THEN SubSeq(response_text, 1, Min(SummaryLimit, Len(response_text)))
                   ELSE SummaryNone
    IN [ kind |-> "heuristic", success |-> TRUE,
         sentiment_score |-> IF buy THEN 65 ELSE IF sell THEN 35 ELSE NeutralScore,
         trend_prediction |-> IF buy THEN Str(BullCn) ELSE IF sell THEN Str(BearCn)
                              ELSE Str(Oscillate),
         operation_advice |-> IF buy THEN Str(BuyCn) ELSE IF sell THEN Str(SellCn)
                              ELSE Str(Hold),
         decision_type |-> IF buy THEN Str(Buy) ELSE IF sell THEN Str(Sell)
                           ELSE Str(HoldEn),
         confidence_level |-> Str(ConfLow),
         dashboard |-> Null,
         analysis_summary |-> Str(summary),
         key_points |-> Str(KeyPointsHeuristic),
         error_message |-> <<>>, has_error_message |-> FALSE ]

\* the text between the first '{' and the last '}' of the cleaned text;
\* <<>> when json_start >= 0 and json_end > json_start is false
ExtractJson(response_text) ==
    LET cleaned_text == StripFences(response_text)
        json_start == Find(cleaned_text, "{")
        json_end == RFind(cleaned_text, "}")
    IN IF json_start >= 1 /\ json_end >= json_start
       THEN SubSeq(cleaned_text, json_start, json_end)
       ELSE <<>>

\* _parse_response: the exception that leaves it, else the result
_parse_response(response_text, rep) ==
    LET json_str == ExtractJson(response_text) IN
    IF json_str = <<>>
    THEN [raised |-> NoError, result |-> _parse_text_response(response_text)]
    ELSE
    LET r == Loads(_fix_json_string(json_str, rep)) IN
    IF ~r.ok
    THEN [raised |-> NoError, result |-> _parse_text_response(response_text)]
    ELSE BuildResult(r)

----------------------------------------------------------------------------
(* Response texts *)

\* "key": value
Pair(key, value) == <<Q, key, Q, ":", " ">> \o value
StrLit(content) == <<Q>> \o content \o <<Q>>

RECURSIVE JoinPairs(_)
JoinPairs(pairs) ==
    IF pairs = <<>> THEN <<>>
    ELSE IF Len(pairs) = 1 THEN pairs[1]
    ELSE pairs[1] \o <<",", "\n">> \o JoinPairs(Tail(pairs))

\* the document with these members
Doc(pairs) == <<"{">> \o JoinPairs(pairs) \o <<"}">>

\* commentary around a document
Preamble == <<"analysis", ":", "\n">>
Postscript == <<"\n", "for", " ", "reference">>

\* a document with sentiment_score 72 and operation_advice 买入, embedded
\* in commentary
RespJson ==
    Preamble
    \o Doc(<<Pair("sentiment_score", <<"72">>),
             Pair("operation_advice", StrLit(BuyCn))>>)
    \o Postscript
\* free text without a document
RespText == BullCn \o <<",", " ">> \o Buy \o <<" ">> \o Bullish
\* a document whose sentiment_score is a word
RespBadField == Doc(<<Pair("sentiment_score", StrLit(<<"high">>))>>)

\* response texts a provider may return; <<>> is an empty text / no text
Responses == {RespJson, RespText, RespBadField, <<>>}

\* _parse_response of each of these texts, for each answer of repair_json
ParsedResponse ==
    [text \in Responses |->
        [rep \in RepairOutcomes |-> _parse_response(text, rep)]]

----------------------------------------------------------------------------
(* Raw texts given to the parser *)

\* a member written with this value, or no member when the value is <<>>
Member(key, value) == IF value = <<>> THEN <<>> ELSE <<Pair(key, value)>>

\* a nested dashboard document with an array and a boolean
DashDoc ==
    Doc(<<Pair("core_conclusion",
               Doc(<<Pair("one_sentence", StrLit(<<"steady">>))>>)),
          Pair("checklist", <<"[">> \o StrLit(<<"a">>) \o <<",", " ">>
                            \o StrLit(<<"b">>) \o <<"]">>),
          Pair("has_position", <<"true">>)>>)

\* values a response document may carry for a field; <<>>: no such member
SummaryOpts ==
    { <<>>,
      StrLit(<<"True", " ", "breakout">>),
      StrLit(<<"see", " ", "http:", "//", "x">>) }
ScoreOpts == { <<>>, <<"72">>, <<"150">>, StrLit(<<"high">>) }
AdviceOpts == { <<>>, StrLit(BuyCn), StrLit(SellCn) }
DecisionOpts == { <<>>, StrLit(<<>>), StrLit(Sell) }
DashOpts == { <<>>, DashDoc, StrLit(<<"n/a">>) }
TrendOpts == { <<>>, <<"null">> }

\* the well-formed response documents
Docs ==
    { Doc(Member("analysis_summary", su) \o Member("sentiment_score", sc)
          \o Member("operation_advice", ad) \o Member("decision_type", de)
          \o Member("dashboard", da) \o Member("trend_prediction", tr)) :
        su \in SummaryOpts, sc \in ScoreOpts, ad \in AdviceOpts,
        de \in DecisionOpts, da \in DashOpts, tr \in TrendOpts }

\* s with the tokens ins inserted before position i
InsertAt(s, i, ins) == SubSeq(s, 1, i - 1) \o ins \o SubSeq(s, i, Len(s))

\* a response that is the document doc written in one of the ways a model
\* writes it
Damages ==
    { "none", "commentary", "fence", "comma_obj", "comma_arr", "py_bools",
      "truncated", "two_docs" }
Damage(doc, how) ==
    CASE how = "commentary" -> Preamble \o doc \o Postscript
      [] how = "fence" -> <<"fence_json", "\n">> \o doc \o <<"\n", "fence">>
      [] how = "comma_obj" -> InsertAt(doc, Len(doc), <<",", "\n">>)
      [] how = "comma_arr" ->
            IF Find(doc, "]") = 0 THEN doc
            ELSE InsertAt(doc, Find(doc, "]"), <<",", " ">>)
      [] how = "py_bools" ->
            [i \in 1..Len(doc) |->
                IF doc[i] = "true" THEN "True"
                ELSE IF doc[i] = "false" THEN "False"
                ELSE doc[i]]
      [] how = "truncated" -> SubSeq(doc, 1, Len(doc) - 1)
      [] how = "two_docs" -> doc \o <<"\n">> \o doc
      [] OTHER -> doc

\* free texts: up to MaxWords words
Words == { Buy, <<"B", "U", "Y">>, BuyCn, Bullish, Sell, <<"the">> }
RECURSIVE TextsOf(_)
TextsOf(n) ==
    IF n = 0 THEN {<<>>}
    ELSE LET shorter == TextsOf(n - 1)
         IN shorter \cup { t \o <<" ">> \o w : t \in shorter \ {<<>>}, w \in Words }
                    \cup Words
FreeTexts == TextsOf(MaxWords)

----------------------------------------------------------------------------
(* Configuration and construction *)

\* a key is valid when set, not a 'your_' placeholder and longer than 10
KeyValid(k) == k = "valid"
\* truthiness of an optional string
Truthy(s) == s # "none"

Configs ==
    [ gemini_key : {"none", "valid"},
      openai_api_key : {"none", "placeholder", "valid"},
      openai_base_url : {"none", "http"},
      gemini_max_retries : 0..MaxRetriesCfg,
      gemini_retry_delay : BaseDelays ]

\* what the libraries do at construction time
\*   genai: "ok", "primary_fails" (GenerativeModel(primary) raises),
\*          "fails" (import or both constructors raise)
\*   openai_ok: the openai import and OpenAI(...) succeed
\*   err_texts, responses: what the providers answer with
Envs ==
    [ genai : {"ok", "primary_fails", "fails"}, openai_ok : BOOLEAN,
      err_texts : {ErrTexts}, responses : {Responses} ]

Blank ==
    [ model |-> "None", current_model_name |-> "None",
      using_fallback |-> FALSE, use_openai |-> FALSE,
      openai_client |-> FALSE ]

_init_openai_fallback(a, cf, ev) ==
    IF ~KeyValid(cf.openai_api_key) THEN a
    ELSE IF ~ev.openai_ok THEN a
    ELSE [a EXCEPT !.openai_client = TRUE,
                   !.current_model_name = "openai_model",
                   !.use_openai = TRUE]

\* _init_model catches every exception itself and leaves _model = None
_init_model(a, ev) ==
    CASE ev.genai = "ok" ->
            [a EXCEPT !.model = "primary",
                      !.current_model_name = "gemini_model",
                      !.using_fallback = FALSE]
      [] ev.genai = "primary_fails" ->
            [a EXCEPT !.model = "fallback",
                      !.current_model_name = "gemini_model_fallback",
                      !.using_fallback = TRUE]
      [] OTHER -> [a EXCEPT !.model = "None"]

\* GeminiAnalyzer.__init__
Construct(cf, ev) ==
    IF KeyValid(cf.gemini_key)
    THEN _init_model(Blank, ev)
    ELSE _init_openai_fallback(Blank, cf, ev)

\* variant: the test is always true
is_available_always(a) == TRUE

is_available(a) == a.model # "None" \/ a.openai_client

\* variant: the new model object is not stored in self._model
_switch_to_fallback_model_unstored(a) ==
    [a EXCEPT !.current_model_name = "gemini_model_fallback",
              !.using_fallback = TRUE]

_switch_to_fallback_model(a) ==
    [a EXCEPT !.model = "fallback",
              !.current_model_name = "gemini_model_fallback",
              !.using_fallback = TRUE]

----------------------------------------------------------------------------
(* Retry policy *)

Pow2(n) == IF n <= 0 THEN 1 ELSE 2 ^ n

\* variant: the exponent is the attempt index itself
Delay_exponent_attempt(base_delay, attempt) ==
    Min(base_delay * Pow2(attempt), MaxDelay)

\* delay = base_delay * (2 ** (attempt - 1)); delay = min(delay, 60)
Delay(base_delay, attempt) == Min(base_delay * Pow2(attempt - 1), MaxDelay)

\* variant: range(max_retries + 1)
InBudget_one_more(attempt, max_retries) == attempt < max_retries + 1

\* for attempt in range(max_retries)
InBudget(attempt, max_retries) == attempt < max_retries

\* variant: the switch is tried after any error
ShouldSwitch_any_error(e, attempt, max_retries, tried_fallback) ==
    /\ attempt >= max_retries \div 2
    /\ ~tried_fallback

\* variant: the switch is tried again after one succeeded
ShouldSwitch_again(e, attempt, max_retries, tried_fallback) ==
    /\ is_rate_limit(e.text)
    /\ attempt >= max_retries \div 2

\* attempt >= max_retries // 2 and not tried_fallback, on a rate limit error
ShouldSwitch(e, attempt, max_retries, tried_fallback) ==
    /\ is_rate_limit(e.text)
    /\ attempt >= max_retries \div 2
    /\ ~tried_fallback

\* variant: raise openai_error
RaiseAfterOpenAI_latest(last_error, openai_error) == openai_error

\* raise last_error or openai_error
RaiseAfterOpenAI(last_error, openai_error) == OrElse(last_error, openai_error)

----------------------------------------------------------------------------
(* State *)

VARIABLES
    cfg,        \* the configuration get_config() returns
    env,        \* what the client libraries do on this host
    an,         \* the GeminiAnalyzer instance: _model, _current_model_name,
                \* _using_fallback, _use_openai, _openai_client
    th,         \* per caller thread: position in analyze() and its locals
    promoted,   \* history: some _switch_to_fallback_model() call succeeded
    lazy,       \* history: _call_api_with_retry initialised the OpenAI client
    budget,     \* number of analyze() invocations each caller makes
    ps,         \* a run of _parse_response on its own: the text, the
                \* position in the function and its locals
    bt,         \* a run of batch_analyze: its contexts, the loop index,
                \* the results list and the sleeps and analyze calls made
    db,         \* the database of DatabaseManager (src/src/storage.py): the
                \* tables news_intel and analysis_history, and the calls of
                \* save_news_intel and save_analysis_history
    cl,         \* one failed provider call and its classification by the except
                \* branch of the loop
    nm,         \* the display name of one analyze call: its context, the name
                \* chosen before the call and the name of the result
    ef,         \* the .env file and one set_stock_list / get_stock_list
                \* exchange of ConfigService
    svc,        \* AnalysisService: its pool, its task records, the request
                \* threads in submit_analysis and the jobs they submitted
    cn          \* two save_news_intel calls that run at the same time, each
                \* in a session of its own, and the news_intel table they share

vars == <<cfg, env, an, th, promoted, lazy, budget, ps, bt, db, cl, nm, ef, svc, cn>>

ThreadInit ==
    [ pc |-> "idle", inv |-> 0, code |-> "none", attempt |-> 0,
      last_error |-> NoError, tried_fallback |-> FALSE,
      via_gemini |-> FALSE, log |-> <<>>,
      last_attempt_error |-> NoError, last_gemini_error |-> NoError,
      waits |-> 0, text |-> <<>>, exc |-> NoError,
      result |-> NoResult, escaped |-> FALSE,
      start |-> [promoted |-> FALSE, lazy |-> FALSE, model |-> "None",
                 use_openai |-> FALSE] ]

\* the parser has not been given a text
PsIdle ==
    [ stage |-> "idle", doc |-> <<>>, damage |-> "none", raw |-> <<>>,
      json_str |-> <<>>, rep |-> <<>>, guessed |-> FALSE, data |-> <<>>,
      raised |-> NoError, result |-> NoResult ]

\* no name has been resolved
NmIdle ==
    [ pc |-> "idle", code |-> "none", stock_name |-> <<>>,
      realtime_name |-> <<>>, json |-> FALSE, ai_stock_name |-> <<>>,
      name |-> <<>> ]

\* an empty .env file and no call of ConfigService
EfIdle ==
    [ pc |-> "idle", text |-> <<>>, before |-> <<>>, stock_list |-> <<>>,
      normalized |-> <<>>, got |-> <<>> ]

\* one request thread that has not called submit_analysis
ReqIdle == [ pc |-> "idle", task_id |-> 0, pool |-> 0, outcome |-> "none" ]

\* no get_task_status call has returned
NoReply == [ asked |-> FALSE, task_id |-> 0, status |-> "none" ]

\* AnalysisService(): no pool, no task record
SvcIdle ==
    [ max_workers |-> DefaultMaxWorkers, executor |-> 0, pools |-> 0,
      clock |-> 0, tasks |-> <<>>, queue |-> <<>>,
      req |-> [r \in 1..MaxRequests |-> ReqIdle], reply |-> NoReply ]

\* a session in which save_news_intel has not been called
CsIdle ==
    [ pc |-> "idle", n |-> 0, own |-> {}, saved_count |-> 0,
      url_key |-> <<>>, inserted |-> {}, conflicts |-> {}, ret |-> 0 ]

\* an empty news_intel table and two idle sessions
CnIdle == [ table |-> {}, s |-> [x \in {1, 2} |-> CsIdle] ]

\* no provider call has failed
ClIdle ==
    [ stage |-> "idle", fam |-> "gemini", status |-> "none", what |-> "empty",
      error_str |-> <<>>, is_rate_limit |-> FALSE ]

\* no save_news_intel call is running
SvIdle ==
    [ pc |-> "idle", code |-> "none", query_id |-> "none", work |-> {},
      before |-> 0, saved_count |-> 0, n |-> 0, url_key |-> <<>>, ret |-> 0 ]

\* no save_analysis_history call was made
HsIdle ==
    [ called |-> FALSE, result |-> "none", snapshot_given |-> FALSE,
      save_snapshot |-> FALSE, db_ok |-> TRUE, before |-> 0, ret |-> 0 ]

\* the database after create_all: both tables empty
DbEmpty ==
    [ news |-> {}, history |-> <<>>, calls |-> 0, sv |-> SvIdle, hs |-> HsIdle ]

\* batch_analyze has not been called
BtIdle ==
    [ pc |-> "idle", contexts |-> <<>>, i |-> 0, results |-> <<>>,
      events |-> <<>>, request_delay |-> 0 ]

Init ==
    /\ cfg \in Configs
    /\ env \in Envs
    /\ an = Construct(cfg, env)
    /\ th = [c \in Calls |-> ThreadInit]
    /\ promoted = FALSE
    /\ lazy = FALSE
    /\ budget = MaxInvocations
    /\ ps = PsIdle
    /\ bt = BtIdle
    /\ db = DbEmpty
    /\ cn = CnIdle
    /\ svc = SvcIdle
    /\ ef = EfIdle
    /\ nm = NmIdle
    /\ cl = ClIdle

\* the concurrent runs start from a configuration with both families usable
ConcConfigs ==
    { cf \in Configs :
        /\ cf.gemini_key = "valid"
        /\ cf.openai_api_key = "valid"
        /\ cf.gemini_max_retries \in {0, MaxRetriesCfg}
        /\ cf.gemini_retry_delay = DefaultRetryDelay }

\* a throttling and a non-throttling failure
ConcErrTexts == { <<"4", "2", "9">>, <<"t", "i", "m", "e", "d">> }

InitConc ==
    /\ cfg \in ConcConfigs
    /\ env = [genai |-> "ok", openai_ok |-> TRUE,
              err_texts |-> ConcErrTexts, responses |-> {RespJson}]
    /\ an = Construct(cfg, env)
    /\ th = [c \in Calls |-> ThreadInit]
    /\ promoted = FALSE
    /\ lazy = FALSE
    /\ budget = 1
    /\ ps = PsIdle
    /\ bt = BtIdle
    /\ db = DbEmpty
    /\ cn = CnIdle
    /\ svc = SvcIdle
    /\ ef = EfIdle
    /\ nm = NmIdle
    /\ cl = ClIdle

\* the parser is given the text raw: a way of writing the document doc, or
\* a free text (doc = <<>>)
PsGiven(doc, damage, raw) ==
    [PsIdle EXCEPT !.stage = "given", !.doc = doc, !.damage = damage,
                   !.raw = raw]

\* the parser alone, on an analyzer that is not running a cascade
InitParse ==
    /\ cfg = [gemini_key |-> "valid", openai_api_key |-> "none",
              openai_base_url |-> "none", gemini_max_retries |-> 0,
              gemini_retry_delay |-> DefaultRetryDelay]
    /\ env = [genai |-> "ok", openai_ok |-> TRUE,
              err_texts |-> {}, responses |-> {}]
    /\ an = Construct(cfg, env)
    /\ th = [c \in Calls |-> ThreadInit]
    /\ promoted = FALSE
    /\ lazy = FALSE
    /\ budget = 0
    /\ bt = BtIdle
    /\ db = DbEmpty
    /\ cn = CnIdle
    /\ svc = SvcIdle
    /\ ef = EfIdle
    /\ nm = NmIdle
    /\ cl = ClIdle
    /\ \/ \E doc \in Docs, how \in Damages : ps = PsGiven(doc, how, Damage(doc, how))
       \/ \E text \in FreeTexts : ps = PsGiven(<<>>, "text", text)

----------------------------------------------------------------------------
(* What one provider attempt can do *)

\* a failure of the provider call itself
ProviderErrors == { Exc("Exception", t) : t \in env.err_texts }

\* variant: an empty response is returned like a text
AttemptError_empty_ok(fam, model, resp, perr) ==
    IF fam = "gemini" /\ model = "None" THEN Exc("AttributeError", MsgNoneType)
    ELSE IF perr.cls # "None" THEN perr
    ELSE NoError

\* outcome of one generate_content / chat.completions.create call:
\* the exception the try body ends with (NoError when it returns a text)
AttemptError(fam, model, resp, perr) ==
    IF fam = "gemini" /\ model = "None" THEN Exc("AttributeError", MsgNoneType)
    ELSE IF perr.cls # "None" THEN perr
    ELSE IF resp = <<>> THEN
        Exc("ValueError", IF fam = "gemini" THEN MsgGeminiEmpty ELSE MsgOpenAIEmpty)
    ELSE NoError

\* the timeout the call is given: generate_content gets
\* request_options={"timeout": 120}; chat.completions.create gets none,
\* and neither does the OpenAI(...) constructor
CallTimeout(fam) ==
    IF fam = "gemini" THEN [given |-> TRUE, seconds |-> GeminiTimeout]
    ELSE [given |-> FALSE, seconds |-> 0]

LogEntry(fam, model, attempt, base_delay, switched) ==
    [ fam |-> fam, model |-> model, idx |-> attempt,
      slept |-> attempt > 0,
      delay |-> IF attempt > 0 THEN Delay(base_delay, attempt) ELSE 0,
      switched |-> switched, timeout |-> CallTimeout(fam) ]

----------------------------------------------------------------------------
(* analyze(): entry *)

\* lines 818-855: code = context.get('code'), the availability test and
\* the prompt
Analyzing(c, context) ==
    /\ th[c].pc \in {"idle", "done"}
    /\ LET fresh == [ThreadInit EXCEPT !.inv = th[c].inv + 1,
                                      !.code = context.code]
           fp == _format_prompt(context.kind)
       IN th' = [th EXCEPT ![c] =
            IF ~is_available(an)
            THEN [fresh EXCEPT !.pc = "done", !.result = UnavailableResult]
            ELSE IF fp.cls # "None"
            THEN [fresh EXCEPT !.pc = "raised", !.exc = fp]
            ELSE [fresh EXCEPT !.pc = "call"]]

\* analyze(context) called by itself
AnalyzeStart(c) ==
    /\ th[c].inv < budget
    /\ \E kind \in Contexts : Analyzing(c, [code |-> DefaultCode, kind |-> kind])
    /\ UNCHANGED <<cfg, env, an, promoted, lazy, budget, ps, bt, db, cl, nm, ef, svc, cn>>

\* _call_api_with_retry, lines 723-732
CallEnter(c) ==
    /\ th[c].pc = "call"
    /\ th' = [th EXCEPT ![c] =
          [@ EXCEPT !.pc = IF an.use_openai THEN "openai" ELSE "gemini",
                    !.attempt = 0,
                    !.last_error = NoError,
                    !.via_gemini = FALSE,
                    !.tried_fallback = IF an.use_openai THEN FALSE
                                       ELSE an.using_fallback,
                    !.start = [promoted |-> promoted, lazy |-> lazy,
                               model |-> an.model,
                               use_openai |-> an.use_openai]]]
    /\ UNCHANGED <<cfg, env, an, promoted, lazy, budget, ps, bt, db, cl, nm, ef, svc, cn>>

----------------------------------------------------------------------------
(* _call_api_with_retry: the Gemini loop, lines 734-773 *)

GeminiAttempt(c) ==
    /\ th[c].pc = "gemini"
    /\ InBudget(th[c].attempt, cfg.gemini_max_retries)
    /\ \E resp \in env.responses \cup {<<>>}, perr \in ProviderErrors \cup {NoError},
          switch_ok \in BOOLEAN :
         LET t == th[c]
             e == AttemptError("gemini", an.model, resp, perr)
             wants == /\ e.cls # "None"
                      /\ ShouldSwitch(e, t.attempt, cfg.gemini_max_retries,
                                      t.tried_fallback)
             switched == wants /\ switch_ok
             entry == LogEntry("gemini", an.model, t.attempt,
                               cfg.gemini_retry_delay, switched)
         IN /\ (perr.cls # "None" => resp = <<>>)
            /\ (~wants => switch_ok)
            /\ th' = [th EXCEPT ![c] =
                 IF e.cls = "None"
                 THEN [t EXCEPT !.pc = "parse", !.text = resp,
                                !.log = Append(t.log, entry),
                                !.waits = t.waits + (IF entry.slept THEN 1 ELSE 0)]
                 ELSE [t EXCEPT !.last_error = e,
                                !.last_attempt_error = e,
                                !.last_gemini_error = e,
                                !.tried_fallback = t.tried_fallback \/ switched,
                                !.attempt = t.attempt + 1,
                                !.log = Append(t.log, entry),
                                !.waits = t.waits + (IF entry.slept THEN 1 ELSE 0)]]
            /\ an' = IF switched THEN _switch_to_fallback_model(an) ELSE an
            /\ promoted' = (promoted \/ switched)
    /\ UNCHANGED <<cfg, env, lazy, budget, ps, bt, db, cl, nm, ef, svc, cn>>

\* lines 775-795: the loop is over without a text
GeminiExhausted(c) ==
    /\ th[c].pc = "gemini"
    /\ ~InBudget(th[c].attempt, cfg.gemini_max_retries)
    /\ LET t == th[c]
           init == ~an.openai_client /\ Truthy(cfg.openai_api_key)
                                     /\ Truthy(cfg.openai_base_url)
           an2 == IF init THEN _init_openai_fallback(an, cfg, env) ELSE an
       IN /\ an' = an2
          /\ lazy' = (lazy \/ (init /\ an2.openai_client))
          /\ th' = [th EXCEPT ![c] =
               IF an2.openai_client
               THEN [t EXCEPT !.pc = "openai", !.attempt = 0,
                              !.via_gemini = TRUE]
               ELSE [t EXCEPT !.pc = "raised",
                              !.exc = OrElse(t.last_error,
                                             Exc("Exception", MsgAllFailed))]]
    /\ UNCHANGED <<cfg, env, promoted, budget, ps, bt, db, cl, nm, ef, svc, cn>>

----------------------------------------------------------------------------
(* _call_openai_api, lines 663-703 *)

\* what _call_openai_api raises reaches analyze directly, or through
\* "raise last_error or openai_error" when the Gemini loop ran first
OpenAIRaise(t, openai_error) ==
    IF t.via_gemini THEN RaiseAfterOpenAI(t.last_error, openai_error)
    ELSE openai_error

OpenAIAttempt(c) ==
    /\ th[c].pc = "openai"
    /\ InBudget(th[c].attempt, cfg.gemini_max_retries)
    /\ \E resp \in env.responses \cup {<<>>}, perr \in ProviderErrors \cup {NoError} :
         LET t == th[c]
             e == AttemptError("openai", an.current_model_name, resp, perr)
             entry == LogEntry("openai", an.current_model_name, t.attempt,
                               cfg.gemini_retry_delay, FALSE)
             t1 == [t EXCEPT !.log = Append(t.log, entry),
                             !.waits = t.waits + (IF entry.slept THEN 1 ELSE 0)]
         IN /\ (perr.cls # "None" => resp = <<>>)
            /\ th' = [th EXCEPT ![c] =
                 IF e.cls = "None"
                 THEN [t1 EXCEPT !.pc = "parse", !.text = resp]
                 ELSE IF t.attempt = cfg.gemini_max_retries - 1
                 THEN [t1 EXCEPT !.last_attempt_error = e,
                                 !.pc = "raised", !.exc = OpenAIRaise(t, e)]
                 ELSE [t1 EXCEPT !.last_attempt_error = e,
                                 !.attempt = t.attempt + 1]]
    /\ UNCHANGED <<cfg, env, an, promoted, lazy, budget, ps, bt, db, cl, nm, ef, svc, cn>>

\* line 703: the loop body never ran
OpenAIExhausted(c) ==
    /\ th[c].pc = "openai"
    /\ ~InBudget(th[c].attempt, cfg.gemini_max_retries)
    /\ th' = [th EXCEPT ![c] =
          [th[c] EXCEPT !.pc = "raised",
                        !.exc = OpenAIRaise(th[c], Exc("Exception",
                                                       MsgOpenAIExhausted))]]
    /\ UNCHANGED <<cfg, env, an, promoted, lazy, budget, ps, bt, db, cl, nm, ef, svc, cn>>

----------------------------------------------------------------------------
(* analyze(): after the cascade, lines 886-919 *)

ParseResponse(c) ==
    /\ th[c].pc = "parse"
    /\ \E rep \in RepairOutcomes :
          LET p == ParsedResponse[th[c].text][rep]
          IN th' = [th EXCEPT ![c] =
               IF p.raised.cls # "None"
               THEN [@ EXCEPT !.pc = "raised", !.exc = p.raised]
               ELSE [@ EXCEPT !.pc = "done", !.result = p.result]]
    /\ UNCHANGED <<cfg, env, an, promoted, lazy, budget, ps, bt, db, cl, nm, ef, svc, cn>>

\* except Exception as e: ... return AnalysisResult(success=False, ...)
AnalyzeExcept(c) ==
    /\ th[c].pc = "raised"
    /\ th' = [th EXCEPT ![c] =
          IF Catches(th[c].exc)
          THEN [th[c] EXCEPT !.pc = "done", !.result = DegradedResult(th[c].exc)]
          ELSE [th[c] EXCEPT !.pc = "done", !.escaped = TRUE]]
    /\ UNCHANGED <<cfg, env, an, promoted, lazy, budget, ps, bt, db, cl, nm, ef, svc, cn>>

----------------------------------------------------------------------------
(* Specifications *)

Step(c) ==
    \/ AnalyzeStart(c)
    \/ CallEnter(c)
    \/ GeminiAttempt(c)
    \/ GeminiExhausted(c)
    \/ OpenAIAttempt(c)
    \/ OpenAIExhausted(c)
    \/ ParseResponse(c)
    \/ AnalyzeExcept(c)

\* one caller: invocations follow one another
Next == Step(1)

Spec == Init /\ [][Next]_vars

\* the caller's thread keeps running: sleeps end and provider calls return
\* or time out, so a step that can be taken is taken
SpecLive == Init /\ [][Next]_vars /\ WF_vars(Next)

\* two callers on the same analyzer
NextConc == \E c \in Calls : Step(c)

SpecConc == InitConc /\ [][NextConc]_vars

----------------------------------------------------------------------------
(* _parse_response, lines 1128-1225, step by step *)

\* the fences are stripped and a '{' with a '}' after it is found
ParseExtract ==
    /\ ps.stage = "given"
    /\ ExtractJson(ps.raw) # <<>>
    /\ ps' = [ps EXCEPT !.stage = "extracted", !.json_str = ExtractJson(ps.raw)]
    /\ UNCHANGED <<cfg, env, an, th, promoted, lazy, budget, bt, db, cl, nm, ef, svc, cn>>

\* else: return self._parse_text_response(response_text, code, name)
ParseNoJson ==
    /\ ps.stage = "given"
    /\ ExtractJson(ps.raw) = <<>>
    /\ ps' = [ps EXCEPT !.stage = "done",
                        !.result = _parse_text_response(ps.raw)]
    /\ UNCHANGED <<cfg, env, an, th, promoted, lazy, budget, bt, db, cl, nm, ef, svc, cn>>

\* json_str = self._fix_json_string(json_str)
ParseFix ==
    /\ ps.stage = "extracted"
    /\ \E rep \in RepairOutcomes :
          LET guessed == ~Loads(FixRegexes(ps.json_str)).ok IN
          /\ ~guessed => rep = <<>>
          /\ ps' = [ps EXCEPT !.stage = "fixed",
                              !.json_str = _fix_json_string(ps.json_str, rep),
                              !.rep = rep, !.guessed = guessed]
    /\ UNCHANGED <<cfg, env, an, th, promoted, lazy, budget, bt, db, cl, nm, ef, svc, cn>>

\* data = json.loads(json_str) raises JSONDecodeError: the heuristic answers
ParseDecodeError ==
    /\ ps.stage = "fixed"
    /\ ~Loads(ps.json_str).ok
    /\ ps' = [ps EXCEPT !.stage = "done",
                        !.result = _parse_text_response(ps.raw)]
    /\ UNCHANGED <<cfg, env, an, th, promoted, lazy, budget, bt, db, cl, nm, ef, svc, cn>>

\* data = json.loads(json_str) and the AnalysisResult built from data
ParseBuild ==
    /\ ps.stage = "fixed"
    /\ Loads(ps.json_str).ok
    /\ LET r == Loads(ps.json_str)
           b == BuildResult(r)
       IN ps' = [ps EXCEPT !.stage = "done", !.data = r.mem,
                           !.raised = b.raised, !.result = b.result]
    /\ UNCHANGED <<cfg, env, an, th, promoted, lazy, budget, bt, db, cl, nm, ef, svc, cn>>

NextParse ==
    \/ ParseExtract
    \/ ParseNoJson
    \/ ParseFix
    \/ ParseDecodeError
    \/ ParseBuild

SpecParse == InitParse /\ [][NextParse]_vars

----------------------------------------------------------------------------
(* batch_analyze, lines 1316-1326 *)

\* the lists of contexts batch_analyze is given
BatchContexts == [code : Codes, kind : Contexts]
RECURSIVE ContextLists(_)
ContextLists(n) ==
    IF n = 0 THEN {<<>>}
    ELSE LET shorter == ContextLists(n - 1)
         IN shorter \cup {Append(l, x) : l \in {k \in shorter : Len(k) = n - 1},
                                          x \in BatchContexts}

\* GEMINI_REQUEST_DELAY: 0 switches the sleep of analyze off
RequestDelays == {0, 2}

\* a batch on an analyzer with a Gemini key and a secondary family that
\* is initialised when the Gemini loop is exhausted
InitBatch ==
    /\ cfg \in { cf \in Configs :
                   /\ cf.gemini_key = "valid"
                   /\ cf.openai_api_key = "valid"
                   /\ cf.openai_base_url = "http"
                   /\ cf.gemini_max_retries \in {0, 1}
                   /\ cf.gemini_retry_delay = DefaultRetryDelay }
    /\ env \in { ev \in [ genai : {"ok", "fails"}, openai_ok : BOOLEAN,
                          err_texts : {{<<"4", "2", "9">>}},
                          responses : {{RespJson, RespText}} ] : TRUE }
    /\ an = Construct(cfg, env)
    /\ th = [c \in Calls |-> ThreadInit]
    /\ promoted = FALSE
    /\ lazy = FALSE
    /\ budget = 0
    /\ ps = PsIdle
    /\ db = DbEmpty
    /\ cn = CnIdle
    /\ svc = SvcIdle
    /\ ef = EfIdle
    /\ nm = NmIdle
    /\ cl = ClIdle
    /\ \E l \in ContextLists(MaxBatch), d \in RequestDelays :
          bt = [BtIdle EXCEPT !.pc = "loop", !.contexts = l, !.request_delay = d]

\* variant: the sleep is made before every analysis
BatchSleeps_always(i) == TRUE

\* if i > 0: time.sleep(delay_between)
BatchSleeps(i) == i > 0

\* the AnalysisResult analyze returned: every branch builds it with
\* code=code
ResultOf(t) == [code |-> t.code, fields |-> t.result]

\* one turn of the loop up to the call of analyze, and the entry of
\* analyze: its own sleep of request_delay seconds comes first
BatchCall ==
    /\ bt.pc = "loop"
    /\ bt.i < Len(bt.contexts)
    /\ Analyzing(1, bt.contexts[bt.i + 1])
    /\ bt' = [bt EXCEPT
                !.pc = "analyze",
                !.events = bt.events
                    \o (IF BatchSleeps(bt.i) THEN <<"delay_between">> ELSE <<>>)
                    \o (IF bt.request_delay > 0 THEN <<"request_delay">> ELSE <<>>)
                    \o <<"analyze">>]
    /\ UNCHANGED <<cfg, env, an, promoted, lazy, budget, ps, db, cl, nm, ef, svc, cn>>

\* results.append(result), or the exception analyze let through
BatchAppend ==
    /\ bt.pc = "analyze"
    /\ th[1].pc = "done"
    /\ bt' = IF th[1].escaped
             THEN [bt EXCEPT !.pc = "raised"]
             ELSE [bt EXCEPT !.pc = "loop", !.i = bt.i + 1,
                             !.results = Append(bt.results, ResultOf(th[1]))]
    /\ UNCHANGED <<cfg, env, an, th, promoted, lazy, budget, ps, db, cl, nm, ef, svc, cn>>

\* return results
BatchReturn ==
    /\ bt.pc = "loop"
    /\ bt.i = Len(bt.contexts)
    /\ bt' = [bt EXCEPT !.pc = "returned"]
    /\ UNCHANGED <<cfg, env, an, th, promoted, lazy, budget, ps, db, cl, nm, ef, svc, cn>>

NextBatch ==
    \/ BatchCall
    \/ CallEnter(1)
    \/ GeminiAttempt(1)
    \/ GeminiExhausted(1)
    \/ OpenAIAttempt(1)
    \/ OpenAIExhausted(1)
    \/ ParseResponse(1)
    \/ AnalyzeExcept(1)
    \/ BatchAppend
    \/ BatchReturn

SpecBatch == InitBatch /\ [][NextBatch]_vars

----------------------------------------------------------------------------
(* DatabaseManager (src/src/storage.py): news_intel and analysis_history *)

\* None of an optional string or date
None == "none"

\* a or b, for optional strings
Or(a, b) == IF a # None /\ a # "" THEN a ELSE b

\* s.strip(): the text without leading and trailing blanks
RECURSIVE Strip(_)
Strip(s) ==
    IF s = <<>> THEN s
    ELSE IF IsWs(s[1]) THEN Strip(Tail(s))
    ELSE IF IsWs(s[Len(s)]) THEN Strip(SubSeq(s, 1, Len(s) - 1))
    ELSE s

\* the items of a search response: title, url and source are texts,
\* published_date is the string the provider gave
Titles == { <<" ">>, <<"t1">> }
Urls == { <<>>, <<"u1">> }
Sources == { <<"s1">> }
PublishedDates == { "", "2025-01-03", "2025/01/03" }
Items == [title : Titles, url : Urls, source : Sources,
          published_date : PublishedDates]

\* the query_id of the query_context; None without a query_context
QueryIds == { None, "task_001" }

\* _parse_published_date: fromisoformat, then the strptime formats, else None
_parse_published_date(value) ==
    IF value = "" THEN None
    ELSE IF value \in {"2025-01-03", "2025/01/03"} THEN "2025-01-03T00:00:00"
    ELSE None

\* hashlib.md5(raw_key).hexdigest(): equal digests for equal keys
Md5(raw_key) == <<"md5(">> \o raw_key \o <<")">>

\* _build_fallback_url_key
_build_fallback_url_key(code, title, source, published_date) ==
    LET date_str == IF published_date # None THEN published_date ELSE ""
        raw_key == <<code, "|">> \o title \o <<"|">> \o source \o <<"|", date_str>>
    IN <<"no-url:", code, ":">> \o Md5(raw_key)

\* variant: no item is skipped
SkipsItem_never(title, url) == FALSE

\* if not title and not url: continue
SkipsItem(title, url) == title = <<>> /\ url = <<>>

\* url_key = url or self._build_fallback_url_key(...)
UrlKey(code, title, url, source, published_date) ==
    IF url # <<>> THEN url
    ELSE _build_fallback_url_key(code, title, source, published_date)

\* variant: the select finds nothing
Existing_none(rows, url_key) == {}

\* select(NewsIntel).where(NewsIntel.url == url_key)
Existing(rows, url_key) == {r \in rows : r.url = url_key}

\* the id the table gives the next row
NextId(rows) == Cardinality(rows) + 1

\* session.add(record); session.flush(): the constraint uix_news_url
\* lets the row in or raises IntegrityError
Flush(rows, record) ==
    IF \E r \in rows : r.url = record.url
    THEN [ok |-> FALSE, rows |-> rows]
    ELSE [ok |-> TRUE, rows |-> rows \cup {record}]

\* the body of the loop over response.results for one item: the rows of
\* the session and the saved_count after it, and the url_key of the item
\* (<<>> when the item was skipped)
SaveItem(rows, saved_count, code, query_id, item) ==
    LET title == Strip(item.title)
        url == Strip(item.url)
        source == Strip(item.source)
        published_date == _parse_published_date(item.published_date)
        url_key == UrlKey(code, title, url, source, published_date)
        existing == Existing(rows, url_key)
    IN IF SkipsItem(title, url)
       THEN [rows |-> rows, saved_count |-> saved_count, url_key |-> <<>>]
       ELSE IF existing # {}
       THEN LET e == CHOOSE r \in existing : TRUE
                upd == [e EXCEPT
                          !.source = IF source # <<>> THEN source ELSE e.source,
                          !.published_date = Or(published_date, e.published_date),
                          !.query_id = Or(query_id, e.query_id)]
            IN [rows |-> (rows \ {e}) \cup {upd}, saved_count |-> saved_count,
                url_key |-> url_key]
       ELSE LET record == [id |-> NextId(rows), code |-> code, title |-> title,
                           url |-> url_key, source |-> source,
                           published_date |-> published_date,
                           query_id |-> query_id]
                f == Flush(rows, record)
            IN [rows |-> f.rows,
                saved_count |-> IF f.ok THEN saved_count + 1 ELSE saved_count,
                url_key |-> url_key]

\* save_news_intel is called: 'if not response or not response.results:
\* return 0', else the session is opened
SaveNewsBegin ==
    /\ db.sv.pc \in {"idle", "returned", "raised"}
    /\ db.calls < MaxSaves
    /\ \E code \in Codes, query_id \in QueryIds, empty \in BOOLEAN :
         db' = [db EXCEPT
                  !.calls = db.calls + 1,
                  !.sv = IF empty
                         THEN [SvIdle EXCEPT !.pc = "returned", !.code = code,
                                             !.query_id = query_id,
                                             !.before = Cardinality(db.news)]
                         ELSE [SvIdle EXCEPT !.pc = "loop", !.code = code,
                                             !.query_id = query_id,
                                             !.work = db.news,
                                             !.before = Cardinality(db.news)]]
    /\ UNCHANGED <<cfg, env, an, th, promoted, lazy, budget, ps, bt, cl, nm, ef, svc, cn>>

\* one turn of the loop
SaveNewsItem ==
    /\ db.sv.pc = "loop"
    /\ db.sv.n < MaxItems
    /\ \E item \in Items :
         LET after == SaveItem(db.sv.work, db.sv.saved_count, db.sv.code,
                               db.sv.query_id, item)
         IN db' = [db EXCEPT !.sv = [db.sv EXCEPT
                                       !.n = db.sv.n + 1,
                                       !.work = after.rows,
                                       !.url_key = after.url_key,
                                       !.saved_count = after.saved_count]]
    /\ UNCHANGED <<cfg, env, an, th, promoted, lazy, budget, ps, bt, cl, nm, ef, svc, cn>>

\* session.commit() and return saved_count; when the database raises:
\* session.rollback() and raise
SaveNewsCommit ==
    /\ db.sv.pc = "loop"
    /\ db.sv.n >= 1
    /\ \E commit_ok \in BOOLEAN :
         db' = IF commit_ok
               THEN [db EXCEPT !.news = db.sv.work,
                               !.sv = [db.sv EXCEPT !.pc = "returned",
                                                    !.ret = db.sv.saved_count]]
               ELSE [db EXCEPT !.sv = [db.sv EXCEPT !.pc = "raised"]]
    /\ UNCHANGED <<cfg, env, an, th, promoted, lazy, budget, ps, bt, cl, nm, ef, svc, cn>>

\* the results save_analysis_history is given: None, an AnalysisResult,
\* and one whose code is None (the column code is NOT NULL)
HistoryResults == { None, "code_none" } \cup Codes

\* _safe_json_dumps: always a string
_safe_json_dumps(data) == <<"json(", data, ")">>

\* variant: the snapshot is stored whenever one is given
ContextText_ignoring_flag(save_snapshot, context_snapshot) ==
    IF context_snapshot # None
    THEN _safe_json_dumps(context_snapshot) ELSE <<>>

\* context_text (<<>> for None): 'if save_snapshot and context_snapshot is
\* not None'
ContextText(save_snapshot, context_snapshot) ==
    IF save_snapshot /\ context_snapshot # None
    THEN _safe_json_dumps(context_snapshot) ELSE <<>>

\* save_analysis_history: the record is added and committed; when the
\* commit raises (the database fails, or code is None in a NOT NULL
\* column) the session is rolled back and 0 is returned
SaveHistory ==
    /\ Len(db.history) < MaxSaves
    /\ \E result \in HistoryResults, save_snapshot \in BOOLEAN,
          context_snapshot \in {None, "snapshot"}, db_ok \in BOOLEAN :
         LET record == [ code |-> result,
                         context_snapshot |-> ContextText(save_snapshot,
                                                          context_snapshot) ]
             committed == db_ok /\ result # "code_none"
             call == [ called |-> TRUE, result |-> result,
                       snapshot_given |-> context_snapshot # None,
                       save_snapshot |-> save_snapshot, db_ok |-> db_ok,
                       before |-> Len(db.history), ret |-> 0 ]
         IN db' = IF result = None
                  THEN [db EXCEPT !.hs = call]
                  ELSE IF committed
                  THEN [db EXCEPT !.history = Append(db.history, record),
                                  !.hs = [call EXCEPT !.ret = 1]]
                  ELSE [db EXCEPT !.hs = call]
    /\ UNCHANGED <<cfg, env, an, th, promoted, lazy, budget, ps, bt, cl, nm, ef, svc, cn>>

NextStore ==
    \/ SaveNewsBegin
    \/ SaveNewsItem
    \/ SaveNewsCommit

\* the database alone, on an analyzer that is not running
InitStore ==
    /\ cfg = [gemini_key |-> "valid", openai_api_key |-> "none",
              openai_base_url |-> "none", gemini_max_retries |-> 0,
              gemini_retry_delay |-> DefaultRetryDelay]
    /\ env = [genai |-> "ok", openai_ok |-> TRUE,
              err_texts |-> {}, responses |-> {}]
    /\ an = Construct(cfg, env)
    /\ th = [c \in Calls |-> ThreadInit]
    /\ promoted = FALSE
    /\ lazy = FALSE
    /\ budget = 0
    /\ ps = PsIdle
    /\ bt = BtIdle
    /\ db = DbEmpty
    /\ cn = CnIdle
    /\ svc = SvcIdle
    /\ ef = EfIdle
    /\ nm = NmIdle
    /\ cl = ClIdle

\* calls of save_news_intel, one after the other
SpecStore == InitStore /\ [][NextStore]_vars

\* calls of save_analysis_history, one after the other
NextHistory == SaveHistory

SpecHistory == InitStore /\ [][NextHistory]_vars

----------------------------------------------------------------------------
(* The classification of a provider failure, lines 756-759 and 692-693 *)

\* what the provider did: the status it answered with and what happened
Statuses == { "none", "429", "500", "503", "504" }
Happenings == { "quota", "rate_limit", "timeout", "network", "not_found",
                "reset", "empty" }

\* str(e) of the exception the client library raises for it; the
\* messages of the Gemini client name the method generateContent
StatusText(status) ==
    CASE status = "429" -> <<"4", "2", "9", " ">>
      [] status = "500" -> <<"5", "0", "0", " ">>
      [] status = "503" -> <<"5", "0", "3", " ">>
      [] status = "504" -> <<"5", "0", "4", " ">>
      [] OTHER -> <<>>
HappeningText(fam, what) ==
    CASE what = "quota" -> <<"Q", "u", "o", "t", "a">>
      [] what = "rate_limit" -> <<"R", "a", "t", "e", " ", "l", "i", "m", "i", "t">>
      [] what = "timeout" -> <<"t", "i", "m", "e", "d", " ", "o", "u", "t">>
      [] what = "network" ->
            IF fam = "gemini"
            THEN <<"u", "r", "l", ":", "g", "e", "n", "e", "r", "a", "t", "e",
                   "C", "o", "n", "t", "e", "n", "t">>
            ELSE <<"u", "r", "l", ":", "c", "h", "a", "t">>
      [] what = "not_found" ->
            IF fam = "gemini"
            THEN <<"n", "o", " ", "g", "e", "n", "e", "r", "a", "t", "e",
                   "C", "o", "n", "t", "e", "n", "t">>
            ELSE <<"n", "o", " ", "m", "o", "d", "e", "l">>
      [] what = "reset" -> <<"r", "e", "s", "e", "t">>
      [] OTHER -> IF fam = "gemini" THEN MsgGeminiEmpty ELSE MsgOpenAIEmpty
ErrorText(fam, status, what) ==
    IF what = "empty" THEN HappeningText(fam, what)
    ELSE StatusText(status) \o HappeningText(fam, what)

\* the same test as written in _call_openai_api
is_rate_limit_openai(error_str) ==
    \/ Contains(<<"4", "2", "9">>, error_str)
    \/ Contains(<<"r", "a", "t", "e">>, Lower(error_str))
    \/ Contains(<<"q", "u", "o", "t", "a">>, Lower(error_str))

\* the try body of an attempt raises
ClRaise ==
    /\ cl.stage = "idle"
    /\ \E fam \in {"gemini", "openai"}, status \in Statuses, what \in Happenings :
         /\ (what = "empty" => status = "none")
         /\ cl' = [ClIdle EXCEPT !.stage = "raised", !.fam = fam,
                                 !.status = status, !.what = what,
                                 !.error_str = ErrorText(fam, status, what)]
    /\ UNCHANGED <<cfg, env, an, th, promoted, lazy, budget, ps, bt, db, nm, ef, svc, cn>>

\* except Exception as e: error_str = str(e); is_rate_limit = ...
ClClassify ==
    /\ cl.stage = "raised"
    /\ cl' = [cl EXCEPT !.stage = "classified",
                        !.is_rate_limit =
                            IF cl.fam = "gemini" THEN is_rate_limit(cl.error_str)
                            ELSE is_rate_limit_openai(cl.error_str)]
    /\ UNCHANGED <<cfg, env, an, th, promoted, lazy, budget, ps, bt, db, nm, ef, svc, cn>>

NextClassify == ClRaise \/ ClClassify

SpecClassify == InitStore /\ [][NextClassify]_vars

----------------------------------------------------------------------------
(* The display name of a result: analyze, lines 827-835, and
   _parse_response, lines 1163-1166.  A name is a sequence of words; the
   prefix of the synthesized name is the word "gupiao". *)

\* f'gupiao{code}'
PlaceholderName(code) == <<"gupiao", code>>

\* name.startswith('gupiao')
StartsWithPlaceholder(name) == Len(name) > 0 /\ name[1] = "gupiao"

\* STOCK_NAME_MAP.get(code, f'gupiao{code}')
STOCK_NAME_MAP(code) ==
    CASE code = "600519" -> <<"Kweichow", "Moutai">>
      [] code = "000001" -> <<"Ping", "An", "Bank">>
      [] OTHER -> PlaceholderName(code)

\* the codes, a listed one and one the table does not know
NmCodes == {DefaultCode, "999999"}
\* context.get('stock_name'): missing or empty, synthesized, a real name,
\* the code itself, 'Unknown'
StockNames(code) ==
    {<<>>, PlaceholderName(code), <<"Moutai">>, <<code>>, <<"Unknown">>}
\* context['realtime'].get('name'): missing, a real name, synthesized
RealtimeNames(code) == {<<>>, <<"Maotai">>, PlaceholderName(code)}
\* data.get('stock_name') of the response
AiStockNames == {<<>>, <<"Mao", "Tai">>}

\* analyze, lines 827-835
ResolveName(code, stock_name, realtime_name) ==
    IF stock_name = <<>> \/ StartsWithPlaceholder(stock_name)
    THEN IF realtime_name # <<>> THEN realtime_name
         ELSE STOCK_NAME_MAP(code)
    ELSE stock_name

\* variant: the name of the response is always taken
ParsedName_always(name, code, ai_stock_name) ==
    IF ai_stock_name # <<>> THEN ai_stock_name ELSE name

\* _parse_response, lines 1163-1166
ParsedName(name, code, ai_stock_name) ==
    IF /\ ai_stock_name # <<>>
       /\ \/ StartsWithPlaceholder(name)
          \/ name = <<code>>
          \/ Contains(<<"Unknown">>, name)
    THEN ai_stock_name
    ELSE name

\* analyze(context) resolves the name before the provider is called
NmResolve ==
    /\ nm.pc = "idle"
    /\ \E code \in NmCodes :
         \E stock_name \in StockNames(code), realtime_name \in RealtimeNames(code) :
            nm' = [NmIdle EXCEPT !.pc = "resolved", !.code = code,
                                 !.stock_name = stock_name,
                                 !.realtime_name = realtime_name,
                                 !.name = ResolveName(code, stock_name,
                                                      realtime_name)]
    /\ UNCHANGED <<cfg, env, an, th, promoted, lazy, budget, ps, bt, db, cl, ef, svc, cn>>

\* _parse_response(response_text, code, name): the text decodes as a JSON
\* object (json) or goes to _parse_text_response, which keeps name
NmParse ==
    /\ nm.pc = "resolved"
    /\ \E json \in BOOLEAN, ai_stock_name \in AiStockNames :
         /\ (~json => ai_stock_name = <<>>)
         /\ nm' = [nm EXCEPT !.pc = "parsed", !.json = json,
                             !.ai_stock_name = ai_stock_name,
                             !.name = IF json
                                      THEN ParsedName(nm.name, nm.code,
                                                      ai_stock_name)
                                      ELSE nm.name]
    /\ UNCHANGED <<cfg, env, an, th, promoted, lazy, budget, ps, bt, db, cl, ef, svc, cn>>

NextName == NmResolve \/ NmParse

SpecName == InitStore /\ [][NextName]_vars

----------------------------------------------------------------------------
(* save_news_intel called in two threads at once, storage.py lines 400-506.
   Each call has a session; a session reads the committed rows and the
   rows it wrote itself, and the constraint uix_news_url is checked when a
   row is flushed. *)

Sessions == {1, 2}

\* the items of the responses: one with a url, one without
ConcItems ==
    { i \in Items : i.title = <<"t1">> /\ i.published_date = "" }

\* the rows session x reads: its own, and the committed rows it has not
\* rewritten
View(x) ==
    cn.s[x].own
        \cup { r \in cn.table : \A o \in cn.s[x].own : o.url # r.url }

\* every row, committed or not
AllRows == cn.table \cup cn.s[1].own \cup cn.s[2].own

\* another session has flushed a row with this url and has not committed:
\* the database makes the insert wait
Blocked(x, url_key) ==
    /\ \A r \in cn.table : r.url # url_key
    /\ \E y \in Sessions \ {x} : \E r \in cn.s[y].own : r.url = url_key

\* NewsIntel(code=code, ..., url=url_key, ...), lines 469-489
NewsRecord(code, query_id, item, url_key) ==
    [ id |-> NextId(AllRows), code |-> code, title |-> Strip(item.title),
      url |-> url_key, source |-> Strip(item.source),
      published_date |-> _parse_published_date(item.published_date),
      query_id |-> query_id ]

\* variant: the IntegrityError is not caught for the item and ends the
\* call in the outer handler, which rolls the session back
AfterConflict_raises(sess, url_key) ==
    [sess EXCEPT !.pc = "raised", !.own = {}, !.n = @ + 1,
                 !.conflicts = @ \cup {url_key}]

\* except IntegrityError, lines 493-495: the savepoint is rolled back, the
\* item is skipped and the loop goes on
AfterConflict(sess, url_key) ==
    [sess EXCEPT !.pc = "select", !.n = @ + 1,
                 !.conflicts = @ \cup {url_key}]

\* save_news_intel is called with a response that has results
CsBegin(x) ==
    /\ cn.s[x].pc = "idle"
    /\ cn' = [cn EXCEPT !.s[x].pc = "select"]
    /\ UNCHANGED <<cfg, env, an, th, promoted, lazy, budget, ps, bt, db, cl, nm, ef, svc>>

\* one item, lines 427-466: it is skipped, or the select finds a row and
\* the row is updated, or the select finds nothing and the insert is next
CsSelect(x) ==
    /\ cn.s[x].pc = "select"
    /\ cn.s[x].n < MaxItems
    /\ \E item \in ConcItems :
         LET sess == cn.s[x]
             title == Strip(item.title)
             url == Strip(item.url)
             url_key == UrlKey(DefaultCode, title, url, Strip(item.source),
                               _parse_published_date(item.published_date))
             after == SaveItem(View(x), sess.saved_count, DefaultCode, None, item)
         IN cn' = [cn EXCEPT !.s[x] =
               IF SkipsItem(title, url) \/ Existing(View(x), url_key) # {}
               THEN [sess EXCEPT !.n = @ + 1,
                                 !.own = after.rows \ cn.table]
               ELSE [sess EXCEPT !.pc = "insert", !.url_key = url_key]]
    /\ UNCHANGED <<cfg, env, an, th, promoted, lazy, budget, ps, bt, db, cl, nm, ef, svc>>

\* lines 467-495: session.add(record) and session.flush() inside
\* begin_nested(); the row goes in and is counted, or IntegrityError
CsInsert(x) ==
    /\ cn.s[x].pc = "insert"
    /\ ~Blocked(x, cn.s[x].url_key)
    /\ \E item \in ConcItems :
         LET sess == cn.s[x]
             record == NewsRecord(DefaultCode, None, item, sess.url_key)
             f == Flush(View(x), record)
         IN /\ UrlKey(DefaultCode, Strip(item.title), Strip(item.url),
                      Strip(item.source),
                      _parse_published_date(item.published_date)) = sess.url_key
            /\ cn' = [cn EXCEPT !.s[x] =
                  IF f.ok
                  THEN [sess EXCEPT !.pc = "select", !.n = @ + 1,
                                    !.own = @ \cup {record},
                                    !.saved_count = @ + 1,
                                    !.inserted = @ \cup {sess.url_key}]
                  ELSE AfterConflict(sess, sess.url_key)]
    /\ UNCHANGED <<cfg, env, an, th, promoted, lazy, budget, ps, bt, db, cl, nm, ef, svc>>

\* the insert waits for the other session and the database gives up (lock
\* timeout or deadlock): except Exception, lines 500-503, rollback and raise
CsTimeout(x) ==
    /\ cn.s[x].pc = "insert"
    /\ Blocked(x, cn.s[x].url_key)
    /\ cn' = [cn EXCEPT !.s[x] = [@ EXCEPT !.pc = "raised", !.own = {}]]
    /\ UNCHANGED <<cfg, env, an, th, promoted, lazy, budget, ps, bt, db, cl, nm, ef, svc>>

\* session.commit() and return saved_count, lines 497-506
CsCommit(x) ==
    /\ cn.s[x].pc = "select"
    /\ cn.s[x].n >= 1
    /\ cn' = [cn EXCEPT !.table = View(x),
                        !.s[x] = [@ EXCEPT !.pc = "returned", !.own = {},
                                           !.ret = cn.s[x].saved_count]]
    /\ UNCHANGED <<cfg, env, an, th, promoted, lazy, budget, ps, bt, db, cl, nm, ef, svc>>

NextStoreConc ==
    \E x \in Sessions :
        \/ CsBegin(x)
        \/ CsSelect(x)
        \/ CsInsert(x)
        \/ CsTimeout(x)
        \/ CsCommit(x)

SpecStoreConc == InitStore /\ [][NextStoreConc]_vars

----------------------------------------------------------------------------
(* ConfigService, src/web/services.py lines 38-128.  A text is a sequence
   of characters; a stock code and the key STOCK_LIST are one character
   each. *)

\* s.split(sep)
RECURSIVE Split(_, _)
Split(s, sep) ==
    IF Find(s, sep) = 0 THEN <<s>>
    ELSE <<SubSeq(s, 1, Find(s, sep) - 1)>>
             \o Split(SubSeq(s, Find(s, sep) + 1, Len(s)), sep)

\* sep.join(parts)
RECURSIVE JoinWith(_, _)
JoinWith(parts, sep) ==
    IF parts = <<>> THEN <<>>
    ELSE IF Len(parts) = 1 THEN parts[1]
    ELSE parts[1] \o <<sep>> \o JoinWith(Tail(parts), sep)

\* text.splitlines()
splitlines(text) ==
    IF text = <<>> THEN <<>>
    ELSE LET parts == Split(text, "\n")
         IN IF parts[Len(parts)] = <<>>
            THEN SubSeq(parts, 1, Len(parts) - 1)
            ELSE parts

\* _STOCK_LIST_RE.match(line): blanks, STOCK_LIST, blanks, =, blanks (the
\* prefix), the value up to its last character that is not a blank, and
\* the blanks that end the line (the suffix)
StockListMatch(line) ==
    LET i == SkipWs(line, 1)
        j == SkipWs(line, i + 1)
        k == SkipWs(line, j + 1)
        rest == SubSeq(line, k, Len(line))
    IN IF /\ i <= Len(line) /\ line[i] = "STOCK_LIST"
          /\ j <= Len(line) /\ line[j] = "="
       THEN [ ok |-> TRUE, prefix |-> SubSeq(line, 1, k - 1),
              value |-> Strip(rest),
              suffix |-> SubSeq(rest, Len(Strip(rest)) + 1, Len(rest)) ]
       ELSE [ ok |-> FALSE, prefix |-> <<>>, value |-> <<>>, suffix |-> <<>> ]

\* the quotes a value may be wrapped in
Quotes == {Q, "'"}

\* _extract_stock_list
_extract_stock_list(env_text) ==
    LET lines == splitlines(env_text)
        hits == {i \in DOMAIN lines : StockListMatch(lines[i]).ok}
    IN IF hits = {} THEN <<>>
       ELSE LET raw == Strip(StockListMatch(lines[First(hits)]).value)
            IN IF /\ raw # <<>>
                  /\ \E q \in Quotes : raw[1] = q /\ raw[Len(raw)] = q
               THEN SubSeq(raw, 2, Len(raw) - 1)
               ELSE raw

\* _normalize_stock_list
_normalize_stock_list(value) ==
    LET replaced == [i \in DOMAIN value |->
                        IF value[i] = "\n" THEN "," ELSE value[i]]
        parts == Split(replaced, ",")
        stripped == [i \in DOMAIN parts |-> Strip(parts[i])]
        NonEmpty(p) == p # <<>>
    IN JoinWith(SelectSeq(stripped, NonEmpty), ",")

\* the line that replaces a STOCK_LIST line
RewriteLine(line, new_value) ==
    IF StockListMatch(line).ok
    THEN StockListMatch(line).prefix \o new_value \o StockListMatch(line).suffix
    ELSE line

\* _update_stock_list
_update_stock_list(env_text, new_value) ==
    LET lines == splitlines(env_text)
        rewritten == [i \in DOMAIN lines |-> RewriteLine(lines[i], new_value)]
        replaced == \E i \in DOMAIN lines : StockListMatch(lines[i]).ok
        spaced == IF rewritten # <<>> /\ Strip(rewritten[Len(rewritten)]) # <<>>
                  THEN Append(rewritten, <<>>)
                  ELSE rewritten
        out_lines == IF replaced THEN rewritten
                     ELSE Append(spaced, <<"STOCK_LIST", "=">> \o new_value)
        trailing_newline == IF env_text # <<>>
                            THEN env_text[Len(env_text)] = "\n"
                            ELSE TRUE
    IN JoinWith(out_lines, "\n")
           \o (IF trailing_newline THEN <<"\n">> ELSE <<>>)

\* the lines a .env file is made of here: another key, two STOCK_LIST
\* assignments, an empty line, a comment
EnvLines ==
    { <<"KEY", "=", "v">>,
      <<"STOCK_LIST", "=", "000001">>,
      <<" ", "STOCK_LIST", " ", "=", " ", Q, "000001", ",", "600519", Q, " ">>,
      <<>>,
      <<"#", "STOCK_LIST", "=", "000001">> }

RECURSIVE LineLists(_)
LineLists(n) ==
    IF n = 0 THEN {<<>>}
    ELSE LineLists(n - 1)
           \cup { Append(ls, l) : ls \in LineLists(n - 1), l \in EnvLines }

\* the .env texts: up to MaxLines lines, with or without a final line break
EnvTexts ==
    { JoinWith(ls, "\n") \o nl : ls \in LineLists(MaxLines),
                                 nl \in {<<>>, <<"\n">>} }

\* the characters of a stock_list, and the strings given to set_stock_list
ListChars == {"600519", ",", "\n", " ", Q}
RECURSIVE CharSeqs(_)
CharSeqs(n) ==
    IF n = 0 THEN {<<>>}
    ELSE CharSeqs(n - 1)
           \cup { Append(s, ch) : s \in CharSeqs(n - 1), ch \in ListChars }
StockLists == CharSeqs(MaxChars)

\* set_stock_list(stock_list), lines 67-81: read, normalise, update, write
SetStockList ==
    /\ ef.pc = "idle"
    /\ \E stock_list \in StockLists :
         LET normalized == _normalize_stock_list(stock_list)
         IN ef' = [ef EXCEPT !.pc = "set", !.before = ef.text,
                             !.stock_list = stock_list,
                             !.normalized = normalized,
                             !.text = _update_stock_list(ef.text, normalized)]
    /\ UNCHANGED <<cfg, env, an, th, promoted, lazy, budget, ps, bt, db, cl, nm, svc, cn>>

\* get_stock_list(), lines 62-65
GetStockList ==
    /\ ef.pc = "set"
    /\ ef' = [ef EXCEPT !.pc = "got", !.got = _extract_stock_list(ef.text)]
    /\ UNCHANGED <<cfg, env, an, th, promoted, lazy, budget, ps, bt, db, cl, nm, svc, cn>>

\* a .env file of any of the texts, and nothing else going on
InitEnv ==
    /\ cfg = [gemini_key |-> "valid", openai_api_key |-> "none",
              openai_base_url |-> "none", gemini_max_retries |-> 0,
              gemini_retry_delay |-> DefaultRetryDelay]
    /\ env = [genai |-> "ok", openai_ok |-> TRUE,
              err_texts |-> {}, responses |-> {}]
    /\ an = Construct(cfg, env)
    /\ th = [c \in Calls |-> ThreadInit]
    /\ promoted = FALSE
    /\ lazy = FALSE
    /\ budget = 0
    /\ ps = PsIdle
    /\ bt = BtIdle
    /\ db = DbEmpty
    /\ cn = CnIdle
    /\ svc = SvcIdle
    /\ cl = ClIdle
    /\ nm = NmIdle
    /\ ef \in { [EfIdle EXCEPT !.text = t] : t \in EnvTexts }

NextEnv == SetStockList \/ GetStockList

SpecEnv == InitEnv /\ [][NextEnv]_vars

----------------------------------------------------------------------------
(* AnalysisService, src/web/services.py lines 134-340.  Every request
   thread submits the same code, so a task_id is the reading of the clock
   it was made from; pool 0 is None. *)

Reqs == 1..MaxRequests

\* what process_single_stock does: returns a result, returns None, raises
Outcomes == {"result", "none", "raises"}

\* variant: the except branch leaves the record as it is
RunStatus_unhandled(outcome) ==
    CASE outcome = "result" -> "completed"
      [] outcome = "none" -> "failed"
      [] OTHER -> "running"

\* the status _run_analysis writes at its end, lines 297-334
RunStatus(outcome) == IF outcome = "result" THEN "completed" ELSE "failed"

\* the record _run_analysis writes first, lines 261-271
RunningRecord(task_id) ==
    [ task_id |-> task_id, code |-> DefaultCode, status |-> "running",
      result |-> "None", error |-> "None" ]

\* self._tasks[task_id].update({...}), lines 307-334
FinishedRecord(rec, outcome) ==
    [rec EXCEPT !.status = RunStatus(outcome),
                !.result = IF outcome = "result" THEN "result_data" ELSE @,
                !.error = CASE outcome = "none" -> "empty result"
                            [] outcome = "raises" -> "str(e)"
                            [] OTHER -> @]

\* self._tasks[task_id] = rec
SetTask(tasks, task_id, rec) ==
    [id \in DOMAIN tasks \cup {task_id} |->
        IF id = task_id THEN rec ELSE tasks[id]]

\* the jobs of pool p that a worker thread is running
RunningIn(p) == {r \in Reqs : svc.req[r].pc = "running" /\ svc.req[r].pool = p}

\* submit_analysis, line 196: the task_id is made from datetime.now(), which
\* may give the reading the call before it got
SubmitId(r) ==
    /\ svc.req[r].pc = "idle"
    /\ IF r = 1 THEN TRUE ELSE svc.req[r - 1].pc # "idle"
    /\ \E now \in {svc.clock, svc.clock + 1} :
         /\ now >= 1
         /\ svc' = [svc EXCEPT !.clock = now,
                               !.req[r] = [@ EXCEPT !.pc = "executor",
                                                    !.task_id = now]]
    /\ UNCHANGED <<cfg, env, an, th, promoted, lazy, budget, ps, bt, db, cl, nm, ef, cn>>

\* the executor property, line 165: if self._executor is None
ExecutorCheck(r) ==
    /\ svc.req[r].pc = "executor"
    /\ svc' = [svc EXCEPT !.req[r].pc =
                              IF svc.executor = 0 THEN "create" ELSE "submit"]
    /\ UNCHANGED <<cfg, env, an, th, promoted, lazy, budget, ps, bt, db, cl, nm, ef, cn>>

\* lines 166-169: self._executor = ThreadPoolExecutor(max_workers=...)
ExecutorCreate(r) ==
    /\ svc.req[r].pc = "create"
    /\ svc' = [svc EXCEPT !.pools = @ + 1,
                          !.executor = svc.pools + 1,
                          !.req[r].pc = "submit"]
    /\ UNCHANGED <<cfg, env, an, th, promoted, lazy, budget, ps, bt, db, cl, nm, ef, cn>>

\* line 170 and lines 199-214: return self._executor, submit the job to
\* it, return the task_id
SubmitJob(r) ==
    /\ svc.req[r].pc = "submit"
    /\ svc' = [svc EXCEPT !.queue = Append(@, r),
                          !.req[r] = [@ EXCEPT !.pc = "queued",
                                               !.pool = svc.executor]]
    /\ UNCHANGED <<cfg, env, an, th, promoted, lazy, budget, ps, bt, db, cl, nm, ef, cn>>

\* a worker thread of the job's pool is free and takes the oldest job of
\* the pool; _run_analysis writes the record, lines 261-271
WorkerStart(r) ==
    /\ svc.req[r].pc = "queued"
    /\ Cardinality(RunningIn(svc.req[r].pool)) < svc.max_workers
    /\ \E i \in DOMAIN svc.queue :
         /\ svc.queue[i] = r
         /\ \A j \in 1..(i - 1) : svc.req[svc.queue[j]].pool # svc.req[r].pool
         /\ svc' = [svc EXCEPT
                       !.queue = SubSeq(@, 1, i - 1) \o SubSeq(@, i + 1, Len(@)),
                       !.tasks = SetTask(@, svc.req[r].task_id,
                                         RunningRecord(svc.req[r].task_id)),
                       !.req[r].pc = "running"]
    /\ UNCHANGED <<cfg, env, an, th, promoted, lazy, budget, ps, bt, db, cl, nm, ef, cn>>

\* _run_analysis, lines 273-334: the pipeline is over and the record is
\* updated
RunFinish(r) ==
    /\ svc.req[r].pc = "running"
    /\ \E outcome \in Outcomes :
         svc' = [svc EXCEPT
                    !.tasks[svc.req[r].task_id] = FinishedRecord(@, outcome),
                    !.req[r] = [@ EXCEPT !.pc = "done", !.outcome = outcome]]
    /\ UNCHANGED <<cfg, env, an, th, promoted, lazy, budget, ps, bt, db, cl, nm, ef, cn>>

\* get_task_status(task_id), lines 216-219, asked with a task_id that
\* submit_analysis has returned
GetTaskStatus(r) ==
    /\ svc.req[r].pc \in {"queued", "running", "done"}
    /\ svc' = [svc EXCEPT !.reply =
                 [ asked |-> TRUE, task_id |-> svc.req[r].task_id,
                   status |-> IF svc.req[r].task_id \in DOMAIN svc.tasks
                              THEN svc.tasks[svc.req[r].task_id].status
                              ELSE "None" ]]
    /\ UNCHANGED <<cfg, env, an, th, promoted, lazy, budget, ps, bt, db, cl, nm, ef, cn>>

\* a service built with some max_workers, and nothing else going on
InitTasks ==
    /\ cfg = [gemini_key |-> "valid", openai_api_key |-> "none",
              openai_base_url |-> "none", gemini_max_retries |-> 0,
              gemini_retry_delay |-> DefaultRetryDelay]
    /\ env = [genai |-> "ok", openai_ok |-> TRUE,
              err_texts |-> {}, responses |-> {}]
    /\ an = Construct(cfg, env)
    /\ th = [c \in Calls |-> ThreadInit]
    /\ promoted = FALSE
    /\ lazy = FALSE
    /\ budget = 0
    /\ ps = PsIdle
    /\ bt = BtIdle
    /\ db = DbEmpty
    /\ cn = CnIdle
    /\ cl = ClIdle
    /\ nm = NmIdle
    /\ ef = EfIdle
    /\ svc \in { [SvcIdle EXCEPT !.max_workers = w] : w \in 1..MaxWorkersCfg }

NextTasks ==
    \E r \in Reqs :
        \/ SubmitId(r)
        \/ ExecutorCheck(r)
        \/ ExecutorCreate(r)
        \/ SubmitJob(r)
        \/ WorkerStart(r)
        \/ RunFinish(r)

SpecTasks == InitTasks /\ [][NextTasks]_vars

\* a worker thread that runs _run_analysis gets to the end of it
SpecTasksLive ==
    InitTasks /\ [][NextTasks]_vars /\ \A r \in Reqs : WF_vars(RunFinish(r))

NextStatus == NextTasks \/ \E r \in Reqs : GetTaskStatus(r)

SpecStatus == InitTasks /\ [][NextStatus]_vars

----------------------------------------------------------------------------
(* Vocabulary of the properties *)

\* the analyzer as __init__ left it
Constructed == Construct(cfg, env)

GeminiTries(t) == Cardinality({i \in DOMAIN t.log : t.log[i].fam = "gemini"})
OpenAITries(t) == Cardinality({i \in DOMAIN t.log : t.log[i].fam = "openai"})

\* the invocation reached _call_api_with_retry
Entered(t) == t.start.model # "None" \/ t.start.use_openai

\* the invocation is over and its cascade ended with an error
CascadeFailed(t) ==
    /\ t.pc = "done"
    /\ Entered(t)
    /\ t.text = <<>>
    /\ t.result.kind = "degraded"

\* position of a target in the order primary model, fallback model, OpenAI
Rank(entry) ==
    IF entry.fam = "openai" THEN 3
    ELSE IF entry.model = "fallback" THEN 2
    ELSE 1

----------------------------------------------------------------------------
(* C1 *)

\* C1: whatever the context and whatever the provider does on each attempt
\* (a text of any class, an empty text, a throttling or another failure),
\* an invocation of analyze that is over has returned an AnalysisResult and
\* no exception has escaped to the caller.
C1_AnalyzeNeverRaises ==
    \A c \in Calls :
        /\ ~th[c].escaped
        /\ (th[c].pc = "done" => th[c].result.kind # "none")

\* an invocation whose parser raised came back as a degraded result
C1_Witness ==
    \E c \in Calls :
        /\ th[c].pc = "done"
        /\ th[c].text = RespBadField
        /\ th[c].exc.cls = "ValueError"
        /\ th[c].result.kind = "degraded"

----------------------------------------------------------------------------
(* C2 *)

\* C2 (as claimed): every result with success = false carries a non-empty
\* error_message, also when the text of the provider error is empty.
C2_ErrorMessageNonEmpty ==
    \A c \in Calls :
        (th[c].pc = "done" /\ ~th[c].result.success)
            => th[c].result.error_message # <<>>

----------------------------------------------------------------------------
(* C3 *)

----------------------------------------------------------------------------
(* C4 *)

\* C4: in both loops no wait precedes the first attempt, the wait before
\* retry i >= 1 is min(60, gemini_retry_delay * 2^(i-1)), the retries of a
\* loop are numbered consecutively from 0, and the waits of a loop never
\* decrease.
C4_Backoff ==
    \A c \in Calls :
        LET log == th[c].log IN
        \A i \in DOMAIN log :
            LET e == log[i]
                before == {j \in 1..(i - 1) : log[j].fam = e.fam}
                full == cfg.gemini_retry_delay * (2 ^ (IF e.idx >= 1 THEN e.idx - 1 ELSE 0))
            IN /\ e.idx = Cardinality(before)
               /\ e.idx = 0 => ~e.slept
               /\ e.idx >= 1 =>
                     /\ e.slept
                     /\ e.delay = IF full > 60 THEN 60 ELSE full
               /\ \A j \in before : log[j].delay <= e.delay

\* a retry whose uncapped delay 40 * 2 exceeds the cap, in each loop
C4_Witness ==
    \E c \in Calls :
        LET log == th[c].log IN
        /\ cfg.gemini_retry_delay = 40
        /\ \E i, j \in DOMAIN log :
              /\ log[i].fam = "gemini" /\ log[i].idx = 2 /\ log[i].delay = 60
              /\ log[j].fam = "openai" /\ log[j].idx = 2 /\ log[j].delay = 60

----------------------------------------------------------------------------
(* C5 *)

\* C5 (as claimed): a call attempts the targets it would attempt alone,
\* whatever the other call does: between two of its consecutive Gemini
\* attempts the model changes from primary to fallback only through the
\* switch this call made itself, and its OpenAI attempts name the OpenAI
\* model.
C5_NoSharedCascadeState ==
    \A c \in Calls :
        LET log == th[c].log IN
        \A i \in DOMAIN log :
            /\ (/\ i + 1 \in DOMAIN log
                /\ log[i].fam = "gemini" /\ log[i].model = "primary"
                /\ log[i + 1].fam = "gemini" /\ log[i + 1].model = "fallback")
                  => log[i].switched
            /\ log[i].fam = "openai" => log[i].model = "openai_model"

----------------------------------------------------------------------------
(* C6 *)

----------------------------------------------------------------------------
(* C7 *)

\* C7 (as claimed): when every attempt fails, the error_message of the
\* degraded result is the error of the final failed attempt.
C7_FinalAttemptError ==
    \A c \in Calls :
        (CascadeFailed(th[c]) /\ th[c].log # <<>>)
            => th[c].result.error_message = th[c].last_attempt_error.text

\* C7 (amended): when every attempt fails, the error surfaced is the error
\* of the last failed Gemini attempt whenever the run made a Gemini
\* attempt, also when OpenAI attempts failed after it; it is the error of
\* the final failed attempt only in a run sent directly to the
\* OpenAI-compatible client; a run that made no attempt surfaces a fixed
\* "max tries reached" error.
C7_SurfacedError ==
    \A c \in Calls :
        LET t == th[c] IN
        CascadeFailed(t) =>
            /\ t.result.error_message = t.exc.text
            /\ GeminiTries(t) > 0 => t.exc = t.last_gemini_error
            /\ (GeminiTries(t) = 0 /\ OpenAITries(t) > 0)
                  => t.exc = t.last_attempt_error
            /\ t.log = <<>> => t.exc.text \in {MsgOpenAIExhausted, MsgAllFailed}

\* a failed run whose last Gemini error and last OpenAI error differ
C7_Witness ==
    \E c \in Calls :
        LET t == th[c] IN
        /\ CascadeFailed(t)
        /\ GeminiTries(t) > 0
        /\ OpenAITries(t) > 0
        /\ t.last_gemini_error # t.last_attempt_error
        /\ t.result.error_message = t.last_gemini_error.text

----------------------------------------------------------------------------
(* C8 *)

\* C8 (as claimed): with gemini_max_retries = 0 a run that is over has made
\* one attempt on the target it started on, and no backoff wait.
C8_ZeroRetriesOneAttempt ==
    \A c \in Calls :
        LET t == th[c] IN
        (cfg.gemini_max_retries = 0 /\ Entered(t) /\ t.pc = "done")
            => (Len(t.log) >= 1 /\ t.waits = 0)

----------------------------------------------------------------------------
(* C9 *)

\* C9 (as claimed): in a run whose Gemini attempts all fail (at least one
\* is made) on a host where the OpenAI client can be created, the
\* OpenAI-compatible client is attempted if and only if a valid OpenAI key
\* is configured, with or without a base URL.
C9_SecondaryIffKeyValid ==
    \A c \in Calls :
        LET t == th[c] IN
        (/\ CascadeFailed(t)
         /\ ~t.start.use_openai
         /\ cfg.gemini_max_retries >= 1
         /\ env.openai_ok)
            => (OpenAITries(t) > 0 <=> KeyValid(cfg.openai_api_key))

----------------------------------------------------------------------------
(* C10 *)

\* C10: on an analyzer with neither a Gemini model nor an OpenAI client,
\* an invocation that is over returned success = false, sentiment_score 50
\* and the "API key not configured" message, and made no provider attempt
\* and no wait.
C10_NoBackend ==
    \A c \in Calls :
        LET t == th[c] IN
        (t.pc = "done" /\ an.model = "None" /\ ~an.openai_client) =>
            /\ ~t.result.success
            /\ t.result.sentiment_score = 50
            /\ t.result.error_message = MsgNoKey
            /\ t.log = <<>>
            /\ t.waits = 0
            /\ ~Entered(t)

\* an invocation on an analyzer without any backend is over
C10_Witness ==
    \E c \in Calls :
        /\ th[c].pc = "done"
        /\ th[c].inv >= 1
        /\ an.model = "None" /\ ~an.openai_client
        /\ th[c].result.kind = "unavailable"

----------------------------------------------------------------------------
(* C11 *)

\* C11: when the cascade of an invocation failed on every target, analyze
\* returned a result with sentiment_score 50, operation_advice hold (in
\* Chinese), decision_type 'hold', success = false and error_message equal
\* to the text of the error the cascade raised.
C11_DegradedResult ==
    \A c \in Calls :
        LET t == th[c] IN
        CascadeFailed(t) =>
            /\ t.result.sentiment_score = 50
            /\ t.result.operation_advice = Str(Hold)
            /\ t.result.decision_type = Str(HoldEn)
            /\ ~t.result.success
            /\ t.result.error_message = t.exc.text

\* a run that failed on the Gemini models and on the OpenAI client and
\* came back with the text of the error
C11_Witness ==
    \E c \in Calls :
        LET t == th[c] IN
        /\ CascadeFailed(t)
        /\ GeminiTries(t) > 0
        /\ OpenAITries(t) > 0
        /\ t.exc.text = <<"4", "2", "9">>
        /\ t.result.error_message = <<"4", "2", "9">>
        /\ t.result.sentiment_score = 50

----------------------------------------------------------------------------
(* C12 *)

\* C12 (as claimed): every result the parser returns has a sentiment_score
\* within 0..100, whatever the document carries.
C12_ScoreInRange ==
    (ps.stage = "done" /\ ps.result.kind # "none")
        => ps.result.sentiment_score \in 0..100

----------------------------------------------------------------------------
(* C13 *)

\* C13 (as claimed): in every parsed result the dashboard is None or a
\* nested document, and a response whose dashboard is anything else is
\* parsed without failing.
C13_DashboardAbsentOrNested ==
    (ps.stage = "done" /\ HasKey(ps.data, "dashboard"))
        => /\ ps.raised = NoError
           /\ ps.result.dashboard.t \in {"null", "obj"}

----------------------------------------------------------------------------
(* C14 *)

\* C14 (as claimed): _parse_response returns a result for every raw text
\* and no exception leaves it.
C14_ParserNeverRaises ==
    ps.stage = "done" => (ps.raised = NoError /\ ps.result.kind # "none")

----------------------------------------------------------------------------
(* C15 *)

\* C15 (as claimed): a well-formed document whose sentiment_score converts
\* is parsed to fields that are, value for value, the fields of the
\* document as a strict decoder reads them.
C15_WellFormedFieldForField ==
    LET m == Loads(ps.doc).mem IN
    (/\ ps.stage = "done"
     /\ ps.damage = "none"
     /\ IntRaises(Get(m, "sentiment_score", Num("50"))) = NoError)
        => /\ ps.result.kind = "parsed"
           /\ ps.result.sentiment_score = IntOf(Get(m, "sentiment_score", Num("50")))
           /\ ps.result.analysis_summary = Get(m, "analysis_summary", Str(SummaryDone))
           /\ ps.result.operation_advice = Get(m, "operation_advice", Str(Hold))
           /\ ps.result.dashboard = Get(m, "dashboard", Null)

----------------------------------------------------------------------------
(* C16 *)

----------------------------------------------------------------------------
(* C17 *)

\* occurrences of the keywords in a text
Occurrences(keywords, text) ==
    Cardinality({ p \in keywords \X (0..Len(text)) :
                    /\ p[2] + Len(p[1]) <= Len(text)
                    /\ \A j \in 1..Len(p[1]) : text[p[2] + j] = p[1][j] })

\* the heuristic answered
Heuristic == ps.stage = "done" /\ ps.result.kind = "heuristic"

\* C17 (as claimed): a text with exactly three occurrences of buy-class
\* keywords, of the same or of different keywords, and no sell-class
\* keyword gives decision_type 'buy'; every heuristic result has
\* confidence low.
C17_ThreeOccurrencesBuy ==
    Heuristic =>
        /\ ps.result.confidence_level = Str(ConfLow)
        /\ (/\ Occurrences(positive_keywords, Lower(ps.raw)) = 3
            /\ Occurrences(negative_keywords, Lower(ps.raw)) = 0)
              => ps.result.decision_type = Str(Buy)

\* C17 (amended): what counts is the number of different keywords of a
\* class that occur, not the number of occurrences: without a sell-class
\* keyword the decision is 'buy' when at least two different buy-class
\* keywords occur and 'hold' when at most one does, however often it is
\* repeated; every heuristic result has confidence low.
C17_DistinctKeywordsBuy ==
    Heuristic =>
        LET pos == Cardinality({kw \in positive_keywords : Contains(kw, Lower(ps.raw))})
            neg == Cardinality({kw \in negative_keywords : Contains(kw, Lower(ps.raw))})
        IN /\ ps.result.confidence_level = Str(ConfLow)
           /\ (neg = 0 /\ pos >= 2) => ps.result.decision_type = Str(Buy)
           /\ (neg = 0 /\ pos <= 1) => ps.result.decision_type = Str(HoldEn)

\* a free text with three occurrences of three different buy-class
\* keywords gave 'buy' with confidence low
C17_Witness ==
    /\ Heuristic
    /\ ps.damage = "text"
    /\ Occurrences(positive_keywords, Lower(ps.raw)) = 3
    /\ Cardinality({kw \in positive_keywords : Contains(kw, Lower(ps.raw))}) = 3
    /\ Occurrences(negative_keywords, Lower(ps.raw)) = 0
    /\ ps.result.decision_type = Str(Buy)
    /\ ps.result.confidence_level = Str(ConfLow)

----------------------------------------------------------------------------
(* C18 *)

\* the mapping of the claim
ClaimedDecision(op) ==
    CASE op \in {Str(BuyCn), Str(AddCn), Str(StrongBuyCn)} -> Str(Buy)
      [] op \in {Str(SellCn), Str(ReduceCn), Str(StrongSellCn)} -> Str(Sell)
      [] OTHER -> Str(HoldEn)

\* C18: when the decoded document has no decision_type or an empty one,
\* the decision_type of the result is the claimed mapping of its
\* operation_advice (hold when there is no advice); the document with
\* sentiment_score 72 and the buy advice, embedded in commentary, gives
\* score 72 and 'buy'.
C18_DecisionDerived ==
    /\ \A op \in {Str(BuyCn), Str(AddCn), Str(StrongBuyCn), Str(SellCn),
                  Str(ReduceCn), Str(StrongSellCn), Str(WatchCn), Str(Hold),
                  Null} :
            DeriveDecision(op) = ClaimedDecision(op)
    /\ (ps.stage = "done" /\ ps.result.kind = "parsed") =>
          LET dt == Get(ps.data, "decision_type", Str(<<>>))
              op == Get(ps.data, "operation_advice", Str(Hold))
          IN IF dt \in {Str(<<>>), Null}
             THEN ps.result.decision_type = ClaimedDecision(op)
             ELSE ps.result.decision_type = dt
    /\ (ps.stage = "done" /\ ps.raw = RespJson) =>
          /\ ps.result.kind = "parsed"
          /\ ps.result.sentiment_score = 72
          /\ ps.result.decision_type = Str(Buy)

\* the document with score 72 and the buy advice, in commentary, was parsed
C18_Witness ==
    /\ ps.stage = "done"
    /\ ps.raw = RespJson
    /\ ~HasKey(ps.data, "decision_type")
    /\ ps.result.sentiment_score = 72
    /\ ps.result.decision_type = Str(Buy)

----------------------------------------------------------------------------
(* C19 *)

\* C19 (as claimed): after a successful decode no text field of the result
\* is None.
C19_NoNullField ==
    (ps.stage = "done" /\ ps.result.kind = "parsed") =>
        /\ ps.result.trend_prediction # Null
        /\ ps.result.operation_advice # Null
        /\ ps.result.decision_type # Null
        /\ ps.result.confidence_level # Null
        /\ ps.result.analysis_summary # Null
        /\ ps.result.key_points # Null

----------------------------------------------------------------------------
(* C20 *)

\* C20 (as claimed): is_available() is true only when a family has a valid
\* key, and it is true whenever a valid OpenAI key is configured on a host
\* where the OpenAI client can be created, whatever the Gemini model
\* initialisation did.
C20_AvailableIffConfigured ==
    /\ is_available(an) => (KeyValid(cfg.gemini_key) \/ KeyValid(cfg.openai_api_key))
    /\ (KeyValid(cfg.openai_api_key) /\ env.openai_ok) => is_available(an)

----------------------------------------------------------------------------
(* C21 *)

\* the target whose attempt gave the text of the run
Answered(t) ==
    [fam |-> t.log[Len(t.log)].fam, model |-> t.log[Len(t.log)].model]

\* what analyze returns for a text: the parsed fields, with raw_response
\* set to the text
Returned(t) == [fields |-> t.result, raw_response |-> t.text]

\* C21 (as claimed): the AnalysisResult tells which target answered and how
\* long the call took: two runs that return the same result were answered
\* by the same family and model, after the same number of waits.
C21_ResultIdentifiesTarget ==
    \A c1, c2 \in Calls :
        ( /\ th[c1].pc = "done" /\ th[c2].pc = "done"
          /\ th[c1].result.success /\ th[c2].result.success
          /\ Returned(th[c1]) = Returned(th[c2]) )
            => /\ Answered(th[c1]) = Answered(th[c2])
               /\ th[c1].waits = th[c2].waits

----------------------------------------------------------------------------
(* C22 *)

\* the positions of the analyze calls in the events of the batch
AnalyzeEvents == {k \in DOMAIN bt.events : bt.events[k] = "analyze"}

\* the number of delay_between sleeps made before event k
DelaysBefore(k) ==
    Cardinality({j \in 1..(k - 1) : bt.events[j] = "delay_between"})

\* C22: the results list grows by one result per context, in the order of
\* the contexts, and result i carries the code of context i; the list
\* batch_analyze returns has one result per context, and the batch never
\* ends with an exception.  No delay_between sleep is made before the first
\* analyze call and exactly one between two consecutive calls: the n-th
\* call has n - 1 such sleeps before it.
C22_OneResultPerContext ==
    /\ Len(bt.results) = bt.i
    /\ bt.i <= Len(bt.contexts)
    /\ \A k \in DOMAIN bt.results : bt.results[k].code = bt.contexts[k].code
    /\ bt.pc # "raised"
    /\ bt.pc = "returned" => Len(bt.results) = Len(bt.contexts)
    /\ \A k \in AnalyzeEvents :
          DelaysBefore(k) = Cardinality({j \in AnalyzeEvents : j < k})
    /\ bt.events # <<>> => bt.events[Len(bt.events)] = "analyze"

\* a returned batch of two contexts with different codes, the first
\* analysis failed and the second succeeded
C22_Witness ==
    /\ bt.pc = "returned"
    /\ Len(bt.contexts) = 2
    /\ bt.contexts[1].code # bt.contexts[2].code
    /\ ~bt.results[1].fields.success
    /\ bt.results[2].fields.success

----------------------------------------------------------------------------
(* C23 *)

\* no two rows hold the same url
UniqueUrl(rows) ==
    \A r1, r2 \in rows : r1.url = r2.url => r1 = r2

\* a turn of the loop of save_news_intel is made in this step
SaveItemStep ==
    /\ db.sv.pc = "loop"
    /\ db'.sv.pc = "loop"
    /\ db'.sv.n = db.sv.n + 1

\* C23: the table news_intel, and the rows a running call sees, never hold
\* two rows with one url; a call that returns returns the number of rows
\* the table gained by it, and a call that raises leaves the table with
\* the rows it had.  A turn of the loop for an item whose url is stored
\* already adds no row and does not count; for a new url it adds one row
\* and counts one.  After the turn the row of the item carries the
\* query_id of the call when the call has one, and keeps the one it had
\* when the call has none; no row is removed and no other row loses its
\* query_id.
C23_OneRowPerUrl ==
    /\ [](/\ UniqueUrl(db.news)
          /\ UniqueUrl(db.sv.work)
          /\ db.sv.pc = "returned"
                => db.sv.ret = Cardinality(db.news) - db.sv.before
          /\ db.sv.pc = "raised" => Cardinality(db.news) = db.sv.before
          /\ (db.sv.pc = "loop" /\ db.sv.url_key # <<>>) =>
                \E r \in db.sv.work :
                    /\ r.url = db.sv.url_key
                    /\ db.sv.query_id # None => r.query_id = db.sv.query_id)
    /\ [][SaveItemStep =>
            LET k == db'.sv.url_key
                stored == \E r \in db.sv.work : r.url = k
                added == Cardinality(db'.sv.work) - Cardinality(db.sv.work)
                counted == db'.sv.saved_count - db.sv.saved_count
            IN /\ (k # <<>> /\ stored) => (added = 0 /\ counted = 0)
               /\ (k # <<>> /\ ~stored) => (added = 1 /\ counted = 1)
               /\ \A r \in db.sv.work :
                     \E r2 \in db'.sv.work :
                        /\ r2.id = r.id /\ r2.url = r.url
                        /\ r2.query_id \in {r.query_id, db.sv.query_id}
                        /\ r.query_id # None => r2.query_id # None
                        /\ (r.url # k /\ k # <<>>) => r2 = r]_vars

\* a second call that saved an item whose url was stored already: it
\* returned 0, the table has its one row, and the row has the query_id of
\* the call
C23_Witness ==
    /\ db.calls = 2
    /\ db.sv.pc = "returned"
    /\ db.sv.n = 1
    /\ db.sv.url_key = <<"u1">>
    /\ db.sv.ret = 0
    /\ Cardinality(db.news) = 1
    /\ db.sv.query_id = "task_001"
    /\ \A r \in db.news : r.url = <<"u1">> /\ r.query_id = "task_001"
                          /\ r.code # db.sv.code

----------------------------------------------------------------------------
(* C24 *)

\* the url of the row is a fallback key
IsFallbackKey(url) == Len(url) >= 1 /\ url[1] = "no-url:"

\* C24: a row stored for an item without url has the key that
\* _build_fallback_url_key gives for its code, title, source and published
\* date, written 'no-url:', code, ':', digest, and every other row has the
\* url of its item; no row comes from an item with neither title nor url.
\* A turn of the loop for an item without url whose key is stored already
\* adds no row and does not count, so a call that saves only such items
\* returns 0; a turn for an item with neither title nor url leaves the
\* rows and the count as they were.
C24_FallbackKey ==
    /\ [](\A r \in db.news \cup db.sv.work :
            /\ IsFallbackKey(r.url) =>
                  /\ r.url = _build_fallback_url_key(r.code, r.title, r.source,
                                                     r.published_date)
                  /\ r.url[2] = r.code /\ r.url[3] = ":"
                  /\ r.title # <<>>
            /\ ~IsFallbackKey(r.url) => r.url \in {Strip(u) : u \in Urls} \ {<<>>})
    /\ [](( /\ db.sv.pc = "returned" /\ db.sv.n >= 1
            /\ \A r \in db.news : IsFallbackKey(r.url)
            /\ Cardinality(db.news) = db.sv.before )
              => db.sv.ret = 0)
    /\ [][SaveItemStep =>
            LET k == db'.sv.url_key IN
            /\ (IsFallbackKey(k) /\ \E r \in db.sv.work : r.url = k) =>
                  /\ Cardinality(db'.sv.work) = Cardinality(db.sv.work)
                  /\ db'.sv.saved_count = db.sv.saved_count
            /\ (IsFallbackKey(k) /\ ~\E r \in db.sv.work : r.url = k) =>
                  /\ Cardinality(db'.sv.work) = Cardinality(db.sv.work) + 1
                  /\ \E r \in db'.sv.work : r.url = k /\ r.code = db.sv.code
            /\ k = <<>> =>
                  /\ db'.sv.work = db.sv.work
                  /\ db'.sv.saved_count = db.sv.saved_count]_vars

\* a second call that saved one item without url whose key the first call
\* had stored: it returned 0 and the table has one row, under that key
C24_Witness ==
    /\ db.calls = 2
    /\ db.sv.pc = "returned"
    /\ db.sv.n = 1
    /\ IsFallbackKey(db.sv.url_key)
    /\ db.sv.ret = 0
    /\ Cardinality(db.news) = 1
    /\ \A r \in db.news : r.url = db.sv.url_key /\ r.code = db.sv.code

----------------------------------------------------------------------------
(* C25 *)

\* the rows the last save_analysis_history call added to the table
HistoryAdded == Len(db.history) - db.hs.before

\* the snapshot column of the last row is set
LastSnapshotSet == db.history[Len(db.history)].context_snapshot # <<>>

\* C25 (as claimed): a call with a result that is not None stores one row
\* and returns 1, and the row has a snapshot exactly when save_snapshot is
\* true and a snapshot was given; a call with None stores nothing and
\* returns 0.
C25_OneRowPerCall ==
    db.hs.called =>
        /\ db.hs.result = None => (HistoryAdded = 0 /\ db.hs.ret = 0)
        /\ db.hs.result # None =>
              /\ HistoryAdded = 1 /\ db.hs.ret = 1
              /\ LastSnapshotSet <=> (db.hs.save_snapshot /\ db.hs.snapshot_given)

\* C25 (amended): a call returns 1 exactly when it stored its one row, and
\* that is when the result is not None and the commit succeeded; when the
\* commit raises, and for None, the table is left as it was and the call
\* returns 0.  A stored row has a snapshot exactly when save_snapshot is
\* true and a snapshot was given.
C25_OneRowPerCommittedCall ==
    db.hs.called =>
        /\ HistoryAdded \in {0, 1}
        /\ db.hs.ret = HistoryAdded
        /\ db.hs.result = None => db.hs.ret = 0
        /\ (db.hs.result \in Codes /\ db.hs.db_ok) => db.hs.ret = 1
        /\ (db.hs.result = "code_none" \/ ~db.hs.db_ok) => db.hs.ret = 0
        /\ db.hs.ret = 1 =>
              /\ db.history[Len(db.history)].code = db.hs.result
              /\ LastSnapshotSet <=> (db.hs.save_snapshot /\ db.hs.snapshot_given)

\* a call that was given a snapshot with save_snapshot false and stored a
\* row without it
C25_Witness ==
    /\ db.hs.called
    /\ db.hs.ret = 1
    /\ db.hs.snapshot_given
    /\ ~db.hs.save_snapshot
    /\ ~LastSnapshotSet

----------------------------------------------------------------------------
(* C26 *)

\* the run of thread c made a Gemini attempt that failed, in this step
GeminiFailedStep(c) ==
    /\ th[c].pc = "gemini"
    /\ th'[c].pc = "gemini"
    /\ th'[c].attempt = th[c].attempt + 1

\* C26 (as claimed): in a run that starts on the primary model, every
\* Gemini attempt that follows a failed attempt with an index of at least
\* max_retries // 2 is made on the fallback model, whatever the failure was.
C26_PromotedAtHalf ==
    \A c \in Calls :
        LET t == th[c] IN
        t.start.model = "primary" =>
            \A i, j \in DOMAIN t.log :
                ( /\ i < j
                  /\ t.log[i].fam = "gemini" /\ t.log[j].fam = "gemini"
                  /\ t.log[i].idx >= cfg.gemini_max_retries \div 2 )
                    => t.log[j].model = "fallback"

\* C26 (amended): a failed Gemini attempt changes the model only when its
\* error is a rate limit error, its index is at least max_retries // 2 and
\* no switch succeeded before in the run, and then to the fallback model;
\* after any other failure the analyzer is left as it was and the next
\* attempt is made on the same model.  A rate limit error at such an index
\* either switches the model or, when the fallback model cannot be
\* created, leaves the analyzer as it was.
C26_PromotedOnRateLimitOnly ==
    [][\A c \in Calls :
         GeminiFailedStep(c) =>
            LET e == th'[c].last_error
                due == /\ th[c].attempt >= cfg.gemini_max_retries \div 2
                       /\ ~th[c].tried_fallback
            IN /\ an'.model # an.model =>
                    /\ is_rate_limit(e.text) /\ due
                    /\ an'.model = "fallback"
                    /\ th'[c].tried_fallback
               /\ ~(is_rate_limit(e.text) /\ due) =>
                    /\ an' = an
                    /\ th'[c].tried_fallback = th[c].tried_fallback
               /\ (is_rate_limit(e.text) /\ due) =>
                    \/ an'.model = "fallback" /\ th'[c].tried_fallback
                    \/ an' = an /\ ~th'[c].tried_fallback]_vars

\* a run that started on the primary model and is still on it after an
\* attempt with an index of at least max_retries // 2 failed with an error
\* that is not a rate limit error
C26_Witness ==
    \E c \in Calls :
        LET t == th[c] IN
        /\ t.pc = "gemini"
        /\ t.start.model = "primary"
        /\ t.log # <<>>
        /\ t.log[Len(t.log)].idx >= cfg.gemini_max_retries \div 2
        /\ t.last_error.cls # "None"
        /\ ~is_rate_limit(t.last_error.text)
        /\ InBudget(t.attempt, cfg.gemini_max_retries)
        /\ an.model = "primary"
        /\ ~t.tried_fallback

----------------------------------------------------------------------------
(* C27 *)

\* the entries of a run that ended with a successful switch of model
Switches(t) == {i \in DOMAIN t.log : t.log[i].switched}

\* C27: within one run the cascade switches from the primary model to the
\* fallback model at most once, and never when the run started on the
\* fallback model; the attempts after the switch are made on the fallback
\* model and the model does not change otherwise.  A step of the Gemini
\* loop either is a successful switch (primary to fallback, recorded in
\* tried_fallback) or leaves the model and the model name as they were:
\* so does an attempt whose switch fails.
C27_SwitchAtMostOnce ==
    /\ [](\A c \in Calls :
            LET t == th[c] IN
            /\ Cardinality(Switches(t)) <= 1
            /\ t.start.model = "fallback" => Switches(t) = {}
            /\ \A i \in DOMAIN t.log : t.log[i].switched =>
                  /\ t.log[i].fam = "gemini" /\ t.log[i].model = "primary"
                  /\ \A j \in DOMAIN t.log :
                        (j > i /\ t.log[j].fam = "gemini")
                            => t.log[j].model = "fallback")
    /\ [][\A c \in Calls :
            (th[c].pc = "gemini" /\ th'[c].pc \in {"gemini", "parse"}
                                /\ th'[c] # th[c]) =>
                \/ /\ an'.model = an.model
                   /\ an'.current_model_name = an.current_model_name
                   /\ an'.using_fallback = an.using_fallback
                   /\ th'[c].tried_fallback = th[c].tried_fallback
                \/ /\ an.model = "primary" /\ an'.model = "fallback"
                   /\ an'.current_model_name = "gemini_model_fallback"
                   /\ an'.using_fallback
                   /\ ~th[c].tried_fallback /\ th'[c].tried_fallback]_vars

\* a run that switched and then failed with a rate limit error on the
\* fallback model at an attempt index past the half, without switching again
C27_Witness ==
    \E c \in Calls :
        LET t == th[c] IN
        /\ t.pc = "gemini"
        /\ Switches(t) # {}
        /\ Len(t.log) >= 2
        /\ t.log[Len(t.log)].model = "fallback"
        /\ ~t.log[Len(t.log)].switched
        /\ is_rate_limit(t.last_error.text)
        /\ t.log[Len(t.log)].idx >= cfg.gemini_max_retries \div 2

----------------------------------------------------------------------------
(* C28 *)

\* the Gemini loop of the run is over and gave no text
GeminiLoopOver(t) ==
    \/ t.via_gemini
    \/ /\ t.pc \in {"raised", "done"}
       /\ t.text = <<>>
       /\ t.log # <<>>
       /\ t.log[Len(t.log)].fam = "gemini"

\* the attempts of the run made on the fallback model
FallbackTries(t) ==
    {i \in DOMAIN t.log : t.log[i].fam = "gemini" /\ t.log[i].model = "fallback"}

\* C28 (as claimed): after a switch the attempt counter restarts at 0, so
\* the first attempt on the fallback model has index 0, the first wait on
\* it is the base delay, and a Gemini loop that ends without a text after
\* a switch made max_retries attempts on the fallback model.
C28_CounterResetAtPromotion ==
    \A c \in Calls :
        LET t == th[c] IN
        \A i \in Switches(t) :
            /\ (i + 1 \in DOMAIN t.log /\ t.log[i + 1].fam = "gemini")
                  => t.log[i + 1].idx = 0
            /\ \A j \in FallbackTries(t) :
                  (t.log[j].slept /\ \A k \in FallbackTries(t) : k < j => ~t.log[k].slept)
                      => t.log[j].delay = Min(cfg.gemini_retry_delay, MaxDelay)
            /\ GeminiLoopOver(t)
                  => Cardinality(FallbackTries(t)) = cfg.gemini_max_retries

----------------------------------------------------------------------------
(* C29 *)

\* thread c made an attempt in this step
AttemptStep(c) ==
    /\ th[c].pc \in {"gemini", "openai"}
    /\ th'[c].log # th[c].log

\* C29: a run that has a text has left the loops, and the text is the one
\* the provider answered with; once the text is there the run makes no
\* further attempt and no further wait.  An attempt either returns a
\* non-empty text, and the run goes on to parse it, or fails: an empty
\* response is the ValueError of the code, it is counted as an attempt and
\* the loop goes on with the next index as after any other failure (the
\* last OpenAI attempt raises instead).
C29_ReturnOnFirstText ==
    /\ [](\A c \in Calls :
            LET t == th[c] IN
            /\ t.pc = "parse" => (t.text # <<>> /\ t.text \in env.responses)
            /\ t.pc \in {"call", "gemini", "openai"} => t.text = <<>>
            /\ t.last_attempt_error.text \in {MsgGeminiEmpty, MsgOpenAIEmpty}
                  => t.last_attempt_error.cls = "ValueError")
    /\ [][\A c \in Calls :
            /\ (th[c].text # <<>> /\ th'[c].inv = th[c].inv) =>
                  /\ th'[c].text = th[c].text
                  /\ th'[c].log = th[c].log
                  /\ th'[c].waits = th[c].waits
            /\ AttemptStep(c) =>
                  \/ /\ th'[c].pc = "parse"
                     /\ th'[c].text # <<>>
                     /\ th'[c].attempt = th[c].attempt
                  \/ /\ th'[c].text = <<>>
                     /\ th'[c].last_attempt_error.cls # "None"
                     /\ \/ /\ th'[c].pc = th[c].pc
                           /\ th'[c].attempt = th[c].attempt + 1
                        \/ /\ th[c].pc = "openai"
                           /\ th[c].attempt = cfg.gemini_max_retries - 1
                           /\ th'[c].pc = "raised"]_vars

\* a run whose attempt got an empty response and whose next attempt
\* returned a text
C29_Witness ==
    \E c \in Calls :
        LET t == th[c] IN
        /\ t.pc = "parse"
        /\ t.text # <<>>
        /\ Len(t.log) >= 2
        /\ t.last_attempt_error = Exc("ValueError", MsgGeminiEmpty)

----------------------------------------------------------------------------
(* C30 *)

\* the attempts of the run made on the primary model
PrimaryTries(t) ==
    {i \in DOMAIN t.log : t.log[i].fam = "gemini" /\ t.log[i].model = "primary"}

\* C30: a run makes at most max_retries attempts on the primary model, on
\* the fallback model and on the OpenAI-compatible client (the two Gemini
\* models share one budget), and a run that entered the cascade leaves it,
\* with a text to parse or with an error.
C30_Terminates ==
    /\ [](\A c \in Calls :
            LET t == th[c] IN
            /\ Cardinality(PrimaryTries(t)) <= cfg.gemini_max_retries
            /\ Cardinality(FallbackTries(t)) <= cfg.gemini_max_retries
            /\ GeminiTries(t) <= cfg.gemini_max_retries
            /\ OpenAITries(t) <= cfg.gemini_max_retries)
    /\ \A c \in Calls :
          (th[c].pc \in {"call", "gemini", "openai"})
              ~> (th[c].pc \in {"parse", "raised", "done"})

\* a run that is over after every attempt of both families failed
C30_Witness ==
    \E c \in Calls :
        LET t == th[c] IN
        /\ t.pc = "done"
        /\ cfg.gemini_max_retries >= 2
        /\ GeminiTries(t) = cfg.gemini_max_retries
        /\ OpenAITries(t) = cfg.gemini_max_retries
        /\ t.result.kind = "degraded"

----------------------------------------------------------------------------
(* C31 *)

\* the provider signalled throttling
Throttled == cl.status = "429" \/ cl.what \in {"quota", "rate_limit"}

\* C31 (as claimed): a failure is classified as a rate limit exactly when
\* the provider signalled throttling; a timeout, a network error and an
\* empty response without such a signal are not; and the test of the
\* other family gives the same answer for the same text.
C31_RateLimitedIffThrottled ==
    cl.stage = "classified" =>
        /\ cl.is_rate_limit <=> Throttled
        /\ (cl.what \in {"timeout", "network", "empty"} /\ cl.status # "429")
              => ~cl.is_rate_limit
        /\ cl.is_rate_limit = is_rate_limit(cl.error_str)
        /\ cl.is_rate_limit = is_rate_limit_openai(cl.error_str)

----------------------------------------------------------------------------
(* C32 *)

\* C32 (as claimed): every attempt, on the Gemini models and on the
\* OpenAI-compatible client, is made with a timeout of 120 seconds.
C32_EveryAttemptTimed ==
    \A c \in Calls :
        \A i \in DOMAIN th[c].log :
            /\ th[c].log[i].timeout.given
            /\ th[c].log[i].timeout.seconds = GeminiTimeout

----------------------------------------------------------------------------
(* C33 *)

\* the Gemini family cannot be used: no valid key, or no model object
\* came out of the construction
PrimaryUnavailable == ~KeyValid(cfg.gemini_key) \/ env.genai = "fails"

\* a valid OpenAI key on a host where the client can be created
SecondaryConfigured == KeyValid(cfg.openai_api_key) /\ env.openai_ok

\* C33 (as claimed): when the Gemini family is unavailable and the
\* OpenAI-compatible family is configured, a finished run made all its
\* attempts on the OpenAI-compatible client (at least one, unless building
\* the prompt raised); the immediate degraded result is not returned while
\* the OpenAI-compatible family is configured.
C33_UnavailableSkipsToSecondary ==
    \A c \in Calls :
        th[c].pc = "done" =>
            /\ (PrimaryUnavailable /\ SecondaryConfigured) =>
                   /\ GeminiTries(th[c]) = 0
                   /\ th[c].exc.cls = "None" => OpenAITries(th[c]) >= 1
            /\ th[c].result.kind = "unavailable" => ~SecondaryConfigured

----------------------------------------------------------------------------
(* C34 *)

\* a name that is present and is not the synthesized one
ValidName(name, code) == name # <<>> /\ name # PlaceholderName(code)

\* the code has an entry in the static table
Listed(code) == STOCK_NAME_MAP(code) # PlaceholderName(code)

\* the name the context provides, from stock_name or from realtime
ContextName ==
    IF ValidName(nm.stock_name, nm.code) THEN nm.stock_name
    ELSE IF ValidName(nm.realtime_name, nm.code) THEN nm.realtime_name
    ELSE <<>>

\* the name chosen before the call, whatever the response says
NameBeforeCall ==
    IF nm.stock_name # <<>> /\ ~StartsWithPlaceholder(nm.stock_name)
    THEN nm.stock_name
    ELSE IF nm.realtime_name # <<>> THEN nm.realtime_name
    ELSE IF Listed(nm.code) THEN STOCK_NAME_MAP(nm.code)
    ELSE PlaceholderName(nm.code)

----------------------------------------------------------------------------
(* C39 *)

\* the lines of a text that are not STOCK_LIST assignments, in order
OtherLines(text) ==
    LET IsOther(line) == ~StockListMatch(line).ok
    IN SelectSeq(splitlines(text), IsOther)

\* s starts with p
IsPrefix(p, s) == Len(p) <= Len(s) /\ SubSeq(s, 1, Len(p)) = p

\* C39 (as claimed): after set_stock_list(s), get_stock_list() returns the
\* normalised list that set_stock_list returned, and the lines of the file
\* that are not STOCK_LIST assignments are still there, unchanged and in
\* order.
C39_SetThenGet ==
    ef.pc = "got" =>
        /\ ef.got = ef.normalized
        /\ IsPrefix(OtherLines(ef.before), OtherLines(ef.text))

----------------------------------------------------------------------------
(* C35 *)

\* the analyses that are running, in whatever pool
RunningNow == {r \in Reqs : svc.req[r].pc = "running"}

\* C35 (as claimed): at most max_workers analyses run at the same time, and
\* the service never has made more than one pool.
C35_AtMostMaxWorkers ==
    /\ Cardinality(RunningNow) <= svc.max_workers
    /\ svc.pools <= 1

----------------------------------------------------------------------------
(* C36 *)

\* the committed rows with this url
RowsOf(url_key) == {r \in cn.table : r.url = url_key}

\* what holds whenever an insert has hit the constraint: the table has one
\* row per url, one row for each url that was refused, and a call that
\* returned has its inserted rows in the table and counted
ConflictsHarmless ==
    /\ UniqueUrl(cn.table)
    /\ \A x \in Sessions :
         /\ \A u \in cn.s[x].conflicts : Cardinality(RowsOf(u)) = 1
         /\ cn.s[x].pc = "returned" =>
                /\ cn.s[x].ret = Cardinality(cn.s[x].inserted)
                /\ \A u \in cn.s[x].inserted : Cardinality(RowsOf(u)) = 1

\* the step in which the insert of session x hits the constraint: the call
\* goes on with the next item and loses nothing it has stored so far
ConflictStep(x) ==
    cn'.s[x].conflicts # cn.s[x].conflicts =>
        /\ cn'.s[x].pc = "select"
        /\ cn'.s[x].own = cn.s[x].own
        /\ cn'.s[x].saved_count = cn.s[x].saved_count
        /\ cn'.table = cn.table

\* C36: when an insert hits the constraint uix_news_url because another
\* save_news_intel call committed the same url first, only that item is
\* skipped: the call goes on and does not fail, the other items of the
\* batch are stored and counted, and the table has exactly one row for
\* the url.
C36_ConflictSkipsItemOnly ==
    /\ []ConflictsHarmless
    /\ [][\A x \in Sessions : ConflictStep(x)]_vars

\* a call that was refused one url has returned after storing another item
C36_Witness ==
    \E x \in Sessions :
        /\ cn.s[x].pc = "returned"
        /\ cn.s[x].conflicts # {}
        /\ cn.s[x].ret >= 1

----------------------------------------------------------------------------
(* C37 *)

TerminalStatus == {"completed", "failed"}

\* two submissions were given the same task_id
SharedId(id) ==
    \E r1, r2 \in Reqs :
        r1 # r2 /\ svc.req[r1].task_id = id /\ svc.req[r2].task_id = id

\* a record appears as running
StartsRunning ==
    \A id \in DOMAIN svc'.tasks :
        id \notin DOMAIN svc.tasks => svc'.tasks[id].status = "running"

\* the record of a task_id, once terminal, stays as it is
TerminalStays(id) ==
    svc.tasks[id].status \in TerminalStatus => svc'.tasks[id] = svc.tasks[id]

\* a job that runs gets its record to a terminal status
RunEnds(r) ==
    (svc.req[r].pc = "running")
        ~> ( /\ svc.req[r].task_id \in DOMAIN svc.tasks
             /\ svc.tasks[svc.req[r].task_id].status \in TerminalStatus )

----------------------------------------------------------------------------
(* C38 *)

\* C38 (as claimed): get_task_status, asked with a task_id that
\* submit_analysis returned, never answers None, and no two submissions
\* have the same task_id.
C38_StatusAfterSubmit ==
    /\ svc.reply.asked => svc.reply.status # "None"
    /\ \A r1, r2 \in Reqs :
         ( /\ r1 # r2
           /\ svc.req[r1].pc # "idle"
           /\ svc.req[r2].pc # "idle" )
             => svc.req[r1].task_id # svc.req[r2].task_id

====
